---------------------------- MODULE Spec2Model ----------------------------
(***************************************************************************)
(* A model of src/bot.py, the "665" tabletop bot: the Postgres tables as   *)
(* functions from primary key to row, every command handler as one         *)
(* operator from (database, request) to (database, reply, dice drawn),     *)
(* and the statements of a handler applied in the order of the source.     *)
(*                                                                         *)
(* Free-text columns that no handler branches on (players.name, quote,     *)
(* home, transport, wealth, bonuses.reason) are left out of the rows.      *)
(***************************************************************************)
EXTENDS Integers, Sequences, FiniteSets, TLC

VARIABLES
    players,        \* table players:       <<guild_id, user_id>> -> row
    skills,         \* table skills:        <<guild_id, user_id, skill>> -> points
    bonuses,        \* table bonuses:       id -> row
    bonus_seq,      \* the BIGSERIAL behind bonuses.id: the last id handed out
    inventory,      \* table inventory:     <<guild_id, user_id, item>> -> qty
    weaknesses,     \* table weaknesses:    id -> row
    weakness_seq,   \* the BIGSERIAL behind weaknesses.id
    ability_usage,  \* table ability_usage: <<guild_id, user_id, ability>> -> row
    npc_chars,      \* table npc_chars:     id -> row
    npc_seq,        \* the BIGSERIAL behind npc_chars.id
    npc_skills,     \* table npc_skills:    <<npc_id, skill>> -> points
    npc_bonuses,    \* table npc_bonuses:   id -> row
    req,            \* the request the last handler run was given
    resp,           \* the message that run sent back
    rolled,         \* the values that run drew from random.randint, in order
    tasks           \* the handler runs in flight on the event loop, each
                    \* with its request, the statement it is suspended
                    \* at, and its local variables

tables == <<players, skills, bonuses, bonus_seq, inventory, weaknesses,
            weakness_seq, ability_usage, npc_chars, npc_seq, npc_skills,
            npc_bonuses>>
vars == <<players, skills, bonuses, bonus_seq, inventory, weaknesses,
          weakness_seq, ability_usage, npc_chars, npc_seq, npc_skills,
          npc_bonuses, req, resp, rolled, tasks>>

-----------------------------------------------------------------------------
(* Program constants *)

SKILLS == <<"investigate", "persuade", "insight", "athletics", "stealth",
            "combat", "occult", "streetwise", "tech", "willpower">>

SkillSet == {SKILLS[i] : i \in 1..Len(SKILLS)}

LINEAGES == <<"whitelighter", "human", "demon", "witch">>

LineageSet == {LINEAGES[i] : i \in 1..Len(LINEAGES)}

\* Python's None, for an optional argument that was not given.
None == "None"

\* interaction.guild_id of a command used outside a server.
NoGuild == 0

-----------------------------------------------------------------------------
(* Python built-ins the handlers use *)

Max(a, b) == IF a >= b THEN a ELSE b

Min(a, b) == IF a <= b THEN a ELSE b

\* A clamp that lost its lower bound.
clamp_without_floor(n, lo, hi) == Min(hi, n)

\* A clamp that forgets the upper end.
clamp_without_cap(n, lo, hi) == Max(lo, n)

clamp(n, lo, hi) == Max(lo, Min(hi, n))

\* SQL LEAST(a, b)
LEAST(a, b) == IF a <= b THEN a ELSE b

-----------------------------------------------------------------------------
(* Python strings: str.split, str.lower, str.strip, str.replace,           *)
(* str.startswith, " ".join, int(str)                                      *)

Ch(s, i) == SubSeq(s, i, i)

IsSpace(c) == c \in {" ", "\t", "\n"}

RECURSIVE IndexIn(_, _, _)
\* The first position >= i of character c in s, 0 when there is none.
IndexIn(s, c, i) ==
    IF i > Len(s) THEN 0
    ELSE IF Ch(s, i) = c THEN i
    ELSE IndexIn(s, c, i + 1)

Upper == "ABCDEFGHIJKLMNOPQRSTUVWXYZ"

Lower == "abcdefghijklmnopqrstuvwxyz"

\* The lower-case letter of every upper-case one.
LowerOf == [c \in {Ch(Upper, i) : i \in 1..Len(Upper)} |-> Ch(Lower, IndexIn(Upper, c, 1))]

LowerCh(c) == IF c \in DOMAIN LowerOf THEN LowerOf[c] ELSE c

RECURSIVE lower(_)
lower(s) == IF s = "" THEN "" ELSE LowerCh(Ch(s, 1)) \o lower(SubSeq(s, 2, Len(s)))

RECURSIVE replace(_, _, _)
\* s.replace(a, b) for a single character a
replace(s, a, b) ==
    IF s = "" THEN ""
    ELSE (IF Ch(s, 1) = a THEN b ELSE Ch(s, 1)) \o replace(SubSeq(s, 2, Len(s)), a, b)

RECURSIVE LStrip(_)
LStrip(s) == IF Len(s) > 0 /\ IsSpace(Ch(s, 1)) THEN LStrip(SubSeq(s, 2, Len(s))) ELSE s

RECURSIVE RStrip(_)
RStrip(s) ==
    IF Len(s) > 0 /\ IsSpace(Ch(s, Len(s))) THEN RStrip(SubSeq(s, 1, Len(s) - 1)) ELSE s

strip(s) == RStrip(LStrip(s))

RECURSIVE SplitFrom(_, _, _)
\* text.split(): the maximal runs of non-space characters, in order.
SplitFrom(s, i, cur) ==
    IF i > Len(s) THEN (IF cur = "" THEN <<>> ELSE <<cur>>)
    ELSE IF IsSpace(Ch(s, i))
         THEN (IF cur = "" THEN <<>> ELSE <<cur>>) \o SplitFrom(s, i + 1, "")
    ELSE SplitFrom(s, i + 1, cur \o Ch(s, i))

split(s) == SplitFrom(s, 1, "")

startswith(s, t) == Len(t) <= Len(s) /\ SubSeq(s, 1, Len(t)) = t

RECURSIVE join(_)
\* " ".join(tokens)
join(tokens) ==
    IF Len(tokens) = 0 THEN ""
    ELSE IF Len(tokens) = 1 THEN tokens[1]
    ELSE tokens[1] \o " " \o join(Tail(tokens))

Digits == "0123456789"

IsDigit(c) == IndexIn(Digits, c, 1) # 0

RECURSIVE DigitsValue(_, _, _)
\* The value of the decimal digits of s, its underscores skipped.
DigitsValue(s, i, acc) ==
    IF i > Len(s) THEN acc
    ELSE IF Ch(s, i) = "_" THEN DigitsValue(s, i + 1, acc)
    ELSE DigitsValue(s, i + 1, 10 * acc + (IndexIn(Digits, Ch(s, i), 1) - 1))

\* body is decimal digits that single underscores may separate.
IsNumeral(body) ==
    /\ Len(body) > 0
    /\ IsDigit(Ch(body, 1)) /\ IsDigit(Ch(body, Len(body)))
    /\ \A i \in 1..Len(body) : IsDigit(Ch(body, i)) \/ Ch(body, i) = "_"
    /\ \A i \in 1..(Len(body) - 1) : ~(Ch(body, i) = "_" /\ Ch(body, i + 1) = "_")

\* The number body names, negated when negative; ok = FALSE is the ValueError.
Numeral(body, negative) ==
    IF ~IsNumeral(body) THEN [ok |-> FALSE, val |-> 0]
    ELSE [ok |-> TRUE, val |-> DigitsValue(body, 1, 0) * (IF negative THEN -1 ELSE 1)]

\* A token without spaces around it: an optional sign, then a numeral.
Signed(t) ==
    IF Len(t) > 0 /\ Ch(t, 1) \in {"+", "-"}
    THEN Numeral(SubSeq(t, 2, Len(t)), Ch(t, 1) = "-")
    ELSE Numeral(t, FALSE)

\* int(s) of a string
int(s) == Signed(strip(s))

slug(s) == replace(lower(strip(s)), " ", "_")

-----------------------------------------------------------------------------
(* Tables *)

EmptyTable == [k \in {} |-> 0]

Put(t, k, row) == [x \in DOMAIN t \cup {k} |-> IF x = k THEN row ELSE t[x]]

Drop(t, K) == [x \in DOMAIN t \ K |-> t[x]]

\* The database as one value, so that the statements of a handler compose.
DB == [players |-> players, skills |-> skills, bonuses |-> bonuses,
       bonus_seq |-> bonus_seq, inventory |-> inventory,
       weaknesses |-> weaknesses, weakness_seq |-> weakness_seq,
       ability_usage |-> ability_usage, npc_chars |-> npc_chars,
       npc_seq |-> npc_seq, npc_skills |-> npc_skills,
       npc_bonuses |-> npc_bonuses]

EmptyDB == [players |-> EmptyTable, skills |-> EmptyTable,
            bonuses |-> EmptyTable, bonus_seq |-> 0,
            inventory |-> EmptyTable, weaknesses |-> EmptyTable,
            weakness_seq |-> 0, ability_usage |-> EmptyTable,
            npc_chars |-> EmptyTable, npc_seq |-> 0,
            npc_skills |-> EmptyTable, npc_bonuses |-> EmptyTable]

\* A row of players as INSERT INTO players (guild_id,user_id,name,lineage)
\* leaves it: the column defaults of CREATE TABLE players.
PlayerDefaults(lineage) ==
    [lineage |-> lineage, hp |-> 10, max_hp |-> 10, rv |-> 5, max_rv |-> 5,
     favors |-> 1, connections |-> 0]

\* A row of npc_chars as INSERT INTO npc_chars (...) leaves it.
NpcDefaults(gid, owner, name, lineage) ==
    [guild_id |-> gid, owner_id |-> owner, name |-> name, lineage |-> lineage,
     hp |-> 10, max_hp |-> 10, rv |-> 5, max_rv |-> 5, favors |-> 0,
     connections |-> 0]


\* UPDATE t SET row = v WHERE key IN K
SetAll(t, K, v) == [k \in DOMAIN t |-> IF k \in K THEN v ELSE t[k]]

\* An UPDATE without its WHERE: every row of the table is set.
SetRow_without_where(t, k, v) == [x \in DOMAIN t |-> v]

\* UPDATE t SET row = v WHERE key = k
SetRow(t, k, v) == IF k \in DOMAIN t THEN [t EXCEPT ![k] = v] ELSE t

\* INSERT INTO t ... ON CONFLICT DO NOTHING
InsertIgnore(t, k, row) == IF k \in DOMAIN t THEN t ELSE Put(t, k, row)

-----------------------------------------------------------------------------
(* Requests and replies *)

\* What a handler run leaves: the database, the message it sent, the dice
\* it drew.
Result(d, r, dice) == [db |-> d, resp |-> r, rolled |-> dice]

\* interaction.response.send_message(text) / ctx.reply(text)
Msg(text) == [text |-> text]

ServerOnly == "Use this in a server."

GmOnly == "GM only."

PickFive == "Pick five different skills"

\* interaction.user is a Member with manage_guild or administrator.
IsGM(perm) == perm = TRUE

-----------------------------------------------------------------------------
(* DB helpers *)

\* for sk in SKILLS: INSERT INTO t (.., skill, points) VALUES (.., sk, 0)
\* ON CONFLICT DO NOTHING, K being the keys of the rows to insert
InsertSkills(t, K) == [k \in DOMAIN t \cup K |-> IF k \in DOMAIN t THEN t[k] ELSE 0]

ensure_player(d, gid, uid, lineage) ==
    LET d1 == IF <<gid, uid>> \in DOMAIN d.players THEN d
              ELSE [d EXCEPT !.players =
                        Put(@, <<gid, uid>>,
                            PlayerDefaults(IF lineage = None THEN "human" ELSE lineage))]
    IN [d1 EXCEPT !.skills = InsertSkills(@, {<<gid, uid, sk>> : sk \in SkillSet})]

\* fetchrow(SELECT * FROM npc_chars WHERE guild_id, owner_id, name): the id
\* of the row, 0 when there is none (UNIQUE (guild_id, owner_id, name)).
npc_get(d, gid, owner_id, name) ==
    LET hit == {i \in DOMAIN d.npc_chars :
                    /\ d.npc_chars[i].guild_id = gid
                    /\ d.npc_chars[i].owner_id = owner_id
                    /\ d.npc_chars[i].name = name}
    IN IF hit = {} THEN 0 ELSE CHOOSE i \in hit : TRUE

npc_ensure_skills(d, npc_id) ==
    [d EXCEPT !.npc_skills = InsertSkills(@, {<<npc_id, sk>> : sk \in SkillSet})]

-----------------------------------------------------------------------------
(* Character creation (PC) *)

\* [x.value for x in [plus3, plus2_a, plus2_b, plus1_a, plus1_b] if x]
Picks(slots) == SelectSeq(slots, LAMBDA x : x # None)

SeqSet(q) == {q[i] : i \in 1..Len(q)}

\* A distribution that counts five picks but is not compared as a set.
valid_picks_counted_only(slots) == Len(Picks(slots)) = 5

\* not (len(picks) != 5 or len(set(picks)) != 5)
valid_picks(slots) ==
    ~(Len(Picks(slots)) # 5 \/ Cardinality(SeqSet(Picks(slots))) # 5)

\* A creation that leaves the old points where they are.
reset_skills_skipped(t, K) == t

\* UPDATE skills SET points=0 WHERE guild_id=$1 AND user_id=$2
\* UPDATE npc_skills SET points=0 WHERE npc_id=$1
\* K being the keys of the actor's rows
reset_skills(t, K) == SetAll(t, K, 0)

\* A creation that leaves the resources of an old sheet where they are.
baseline_kept(row) == row

\* UPDATE players SET hp=10, max_hp=10, rv=5, max_rv=5, favors=1, connections=0
baseline(row) ==
    [row EXCEPT !.hp = 10, !.max_hp = 10, !.rv = 5, !.max_rv = 5,
                !.favors = 1, !.connections = 0]

\* The five UPDATE .. SET points=3 / 2 / 2 / 1 / 1 WHERE skill = the slot's
\* skill, in the order of the source; keys[i] is the key of slot i's row.
distribute(t, keys) ==
    LET s1 == SetRow(t, keys[1], 3)
        s2 == SetRow(s1, keys[2], 2)
        s3 == SetRow(s2, keys[3], 2)
        s4 == SetRow(s3, keys[4], 1)
    IN SetRow(s4, keys[5], 1)

\* A lineage bonus that is not applied.
raise_skill_ignored(t, k, n) == t

\* A lineage bonus of 1 whatever the lineage.
raise_skill_by_one(t, k, n) ==
    IF k \in DOMAIN t THEN [t EXCEPT ![k] = LEAST(t[k] + 1, 5)] ELSE t

\* UPDATE .. SET points=LEAST(points+n,5) WHERE skill = the bonus skill
raise_skill(t, k, n) == IF k \in DOMAIN t THEN SetRow(t, k, LEAST(t[k] + n, 5)) ELSE t

create(d, gid, uid, lineage, slots, human_bonus_skill, witch_bonus_skill) ==
    LET picked_set == SeqSet(Picks(slots))
        me == <<gid, uid>>
        d1 == ensure_player(d, gid, uid, lineage)
        \* Reset to baseline
        d2 == [d1 EXCEPT
                 !.players = SetRow(@, me, baseline(@[me])),
                 !.ability_usage = Drop(@, {k \in DOMAIN @ : k[1] = gid /\ k[2] = uid})]
        \* Reset skills then apply distribution
        d3 == [d2 EXCEPT
                 !.skills = distribute(
                     reset_skills(@, {k \in DOMAIN @ : k[1] = gid /\ k[2] = uid}),
                     [i \in 1..5 |-> <<gid, uid, slots[i]>>])]
        \* lineage effects
        d4 == IF lineage = "whitelighter" THEN
                  [d3 EXCEPT
                     !.players = SetRow(@, me,
                         [@[me] EXCEPT !.rv = @ + 2, !.max_rv = @ + 2]),
                     !.ability_usage =
                         InsertIgnore(
                             InsertIgnore(@, <<gid, uid, "orbing">>,
                                          [scope |-> "scene", used |-> FALSE]),
                             <<gid, uid, "healing">>,
                             [scope |-> "rest", used |-> FALSE])]
              ELSE IF lineage = "human" THEN
                  [d3 EXCEPT
                     !.players = SetRow(@, me, [@[me] EXCEPT !.connections = @ + 3]),
                     !.skills =
                         IF human_bonus_skill # None /\ human_bonus_skill \in picked_set
                         THEN raise_skill(@, <<gid, uid, human_bonus_skill>>, 1)
                         ELSE @]
              ELSE IF lineage = "witch" THEN
                  [d3 EXCEPT
                     !.skills =
                         IF witch_bonus_skill # None /\ witch_bonus_skill \in picked_set
                         THEN raise_skill(@, <<gid, uid, witch_bonus_skill>>, 2)
                         ELSE @]
              ELSE d3
        d5 == [d4 EXCEPT !.players = SetRow(@, me, [@[me] EXCEPT !.lineage = lineage])]
    IN IF gid = NoGuild THEN Result(d, Msg(ServerOnly), <<>>)
       ELSE IF ~valid_picks(slots) THEN Result(d, Msg(PickFive), <<>>)
       ELSE Result(d5, Msg("created"), <<>>)

-----------------------------------------------------------------------------
(* NPC CRUD *)

npc_create(d, gid, owner, perm, name, lineage, slots, human_bonus_skill, witch_bonus_skill) ==
    LET picked_set == SeqSet(Picks(slots))
        existing == npc_get(d, gid, owner, name)
        npc_id == IF existing # 0 THEN existing ELSE d.npc_seq + 1
        \* Upsert (replace if exists)
        d1 == IF existing # 0 THEN
                  [d EXCEPT
                     !.npc_bonuses = Drop(@, {i \in DOMAIN @ : @[i].npc_id = npc_id}),
                     !.npc_skills = Drop(@, {k \in DOMAIN @ : k[1] = npc_id}),
                     !.npc_chars = SetRow(@, npc_id,
                         [@[npc_id] EXCEPT !.lineage = lineage, !.hp = 10,
                                           !.max_hp = 10, !.rv = 5, !.max_rv = 5,
                                           !.favors = 0, !.connections = 0])]
              ELSE
                  [d EXCEPT
                     !.npc_seq = npc_id,
                     !.npc_chars = Put(@, npc_id, NpcDefaults(gid, owner, name, lineage))]
        d2 == npc_ensure_skills(d1, npc_id)
        \* Base distribution
        d3 == [d2 EXCEPT
                 !.npc_skills = distribute(
                     reset_skills(@, {k \in DOMAIN @ : k[1] = npc_id}),
                     [i \in 1..5 |-> <<npc_id, slots[i]>>])]
        \* Lineage effects
        d4 == IF lineage = "whitelighter" THEN
                  [d3 EXCEPT !.npc_chars = SetRow(@, npc_id,
                         [@[npc_id] EXCEPT !.rv = @ + 2, !.max_rv = @ + 2])]
              ELSE IF lineage = "human" THEN
                  [d3 EXCEPT
                     !.npc_chars = SetRow(@, npc_id,
                         [@[npc_id] EXCEPT !.connections = @ + 3]),
                     !.npc_skills =
                         IF human_bonus_skill # None /\ human_bonus_skill \in picked_set
                         THEN raise_skill(@, <<npc_id, human_bonus_skill>>, 1)
                         ELSE @]
              ELSE IF lineage = "witch" THEN
                  [d3 EXCEPT
                     !.npc_skills =
                         IF witch_bonus_skill # None /\ witch_bonus_skill \in picked_set
                         THEN raise_skill(@, <<npc_id, witch_bonus_skill>>, 2)
                         ELSE @]
              ELSE d3
    IN IF gid = NoGuild THEN Result(d, Msg(ServerOnly), <<>>)
       ELSE IF ~IsGM(perm) THEN Result(d, Msg(GmOnly), <<>>)
       ELSE IF ~valid_picks(slots) THEN Result(d, Msg(PickFive), <<>>)
       ELSE Result(d4, Msg("NPC saved"), <<>>)

-----------------------------------------------------------------------------
(* GM advancement (PC) *)

gm_skill(d, gid, perm, member, skill, amount) ==
    LET d1 == ensure_player(d, gid, member, None)
        cur == IF <<gid, member, skill>> \in DOMAIN d1.skills
               THEN d1.skills[<<gid, member, skill>>] ELSE 0
        newv == clamp(cur + amount, 0, 5)
        d2 == [d1 EXCEPT !.skills = SetRow(@, <<gid, member, skill>>, newv)]
    IN IF gid = NoGuild THEN Result(d, Msg(ServerOnly), <<>>)
       ELSE IF ~IsGM(perm) THEN Result(d, Msg(GmOnly), <<>>)
       ELSE Result(d2, [text |-> "is now", value |-> newv], <<>>)

-----------------------------------------------------------------------------
(* Skill totals *)

RECURSIVE SumBonus(_, _)
\* SELECT COALESCE(SUM(bonus),0) over the rows with ids `ids` of table t
SumBonus(t, ids) ==
    IF ids = {} THEN 0
    ELSE LET i == CHOOSE x \in ids : TRUE
         IN t[i].bonus + SumBonus(t, ids \ {i})

\* A read that takes a single bonus entry for the sum of all of them.
get_skill_total_pc_one_entry(d, gid, uid, skill) ==
    LET s == slug(skill)
        base == IF <<gid, uid, s>> \in DOMAIN d.skills
                THEN d.skills[<<gid, uid, s>>] ELSE 0
        ids == {i \in DOMAIN d.bonuses :
                   /\ d.bonuses[i].guild_id = gid
                   /\ d.bonuses[i].user_id = uid
                   /\ d.bonuses[i].skill = s}
        bonus == IF ids = {} THEN 0 ELSE d.bonuses[CHOOSE i \in ids : TRUE].bonus
    IN <<base, bonus, base + bonus>>

get_skill_total_pc(d, gid, uid, skill) ==
    LET s == slug(skill)
        base == IF <<gid, uid, s>> \in DOMAIN d.skills
                THEN d.skills[<<gid, uid, s>>] ELSE 0
        bonus == SumBonus(d.bonuses,
                          {i \in DOMAIN d.bonuses :
                              /\ d.bonuses[i].guild_id = gid
                              /\ d.bonuses[i].user_id = uid
                              /\ d.bonuses[i].skill = s})
    IN <<base, bonus, base + bonus>>

npc_skill_total(d, npc_id, skill) ==
    LET s == slug(skill)
        base == IF <<npc_id, s>> \in DOMAIN d.npc_skills
                THEN d.npc_skills[<<npc_id, s>>] ELSE 0
        bonus == SumBonus(d.npc_bonuses,
                          {i \in DOMAIN d.npc_bonuses :
                              /\ d.npc_bonuses[i].npc_id = npc_id
                              /\ d.npc_bonuses[i].skill = s})
    IN <<base, bonus, base + bonus>>

\* A lookup that takes the NPC of that name in the server, whoever owns it.
resolve_actor_of_any_owner(d, gid, uid, as_name) ==
    LET hit == {i \in DOMAIN d.npc_chars :
                    d.npc_chars[i].guild_id = gid /\ d.npc_chars[i].name = as_name}
    IN IF hit # {}
       THEN [kind |-> "npc", gid |-> gid, uid |-> uid, npc_id |-> CHOOSE i \in hit : TRUE]
       ELSE [kind |-> "pc", gid |-> gid, uid |-> uid, npc_id |-> 0]

\* The Actor a roll is made for: the caller's NPC of that name when as_name
\* is given and there is one, the caller's PC otherwise.
resolve_actor_for_roll(d, gid, uid, as_name) ==
    LET npc == IF as_name # None /\ as_name # "" THEN npc_get(d, gid, uid, as_name) ELSE 0
    IN IF npc # 0
       THEN [kind |-> "npc", gid |-> gid, uid |-> uid, npc_id |-> npc]
       ELSE [kind |-> "pc", gid |-> gid, uid |-> uid, npc_id |-> 0]

-----------------------------------------------------------------------------
(* HP / RV of a PC and of an NPC *)

NoCharacter == "No character."

NoSuchNpc == "No such NPC."

\* An adjust that adds a negative amount as it is, so that a heal damages.
newv_heal_not_negated(cur, amount, mx) ==
    clamp(IF amount > 0 THEN cur - amount ELSE cur + amount, 0, mx)

\* clamp(cur - amount if amount > 0 else cur + (-amount), 0, mx)
newv(cur, amount, mx) ==
    clamp(IF amount > 0 THEN cur - amount ELSE cur + (-amount), 0, mx)

hp(d, gid, uid, amount) ==
    LET k == <<gid, uid>>
        v == newv(d.players[k].hp, amount, d.players[k].max_hp)
    IN IF gid = NoGuild THEN Result(d, Msg(ServerOnly), <<>>)
       ELSE IF k \notin DOMAIN d.players THEN Result(d, Msg(NoCharacter), <<>>)
       ELSE Result([d EXCEPT !.players[k].hp = v],
                   [text |-> "HP now", value |-> v, max |-> d.players[k].max_hp],
                   <<>>)

rv(d, gid, uid, amount) ==
    LET k == <<gid, uid>>
        v == newv(d.players[k].rv, amount, d.players[k].max_rv)
    IN IF gid = NoGuild THEN Result(d, Msg(ServerOnly), <<>>)
       ELSE IF k \notin DOMAIN d.players THEN Result(d, Msg(NoCharacter), <<>>)
       ELSE Result([d EXCEPT !.players[k].rv = v],
                   [text |-> "RV now", value |-> v, max |-> d.players[k].max_rv],
                   <<>>)

npc_hp(d, gid, owner, perm, name, amount) ==
    LET id == npc_get(d, gid, owner, name)
        v == newv(d.npc_chars[id].hp, amount, d.npc_chars[id].max_hp)
    IN IF gid = NoGuild THEN Result(d, Msg(ServerOnly), <<>>)
       ELSE IF ~IsGM(perm) THEN Result(d, Msg(GmOnly), <<>>)
       ELSE IF id = 0 THEN Result(d, Msg(NoSuchNpc), <<>>)
       ELSE Result([d EXCEPT !.npc_chars[id].hp = v],
                   [text |-> "HP now", value |-> v, max |-> d.npc_chars[id].max_hp],
                   <<>>)

npc_rv(d, gid, owner, perm, name, amount) ==
    LET id == npc_get(d, gid, owner, name)
        v == newv(d.npc_chars[id].rv, amount, d.npc_chars[id].max_rv)
    IN IF gid = NoGuild THEN Result(d, Msg(ServerOnly), <<>>)
       ELSE IF ~IsGM(perm) THEN Result(d, Msg(GmOnly), <<>>)
       ELSE IF id = 0 THEN Result(d, Msg(NoSuchNpc), <<>>)
       ELSE Result([d EXCEPT !.npc_chars[id].rv = v],
                   [text |-> "RV now", value |-> v, max |-> d.npc_chars[id].max_rv],
                   <<>>)

-----------------------------------------------------------------------------
(* Bonuses (PC) *)

bonus_add(d, gid, uid, skill, amount) ==
    IF gid = NoGuild THEN Result(d, Msg(ServerOnly), <<>>)
    ELSE Result([d EXCEPT
                   !.bonus_seq = @ + 1,
                   !.bonuses = Put(@, d.bonus_seq + 1,
                                   [guild_id |-> gid, user_id |-> uid,
                                    skill |-> skill, bonus |-> amount])],
                [text |-> "Added bonus", value |-> amount], <<>>)

\* A removal that does not ask whose bonus it removes.
bonus_remove_of_anyone(d, gid, uid, bonus_id) ==
    IF gid = NoGuild THEN Result(d, Msg(ServerOnly), <<>>)
    ELSE Result([d EXCEPT !.bonuses = Drop(@, {bonus_id})],
                [text |-> "Removed bonus", value |-> bonus_id], <<>>)

\* DELETE FROM bonuses WHERE id=$1 AND guild_id=$2 AND user_id=$3
bonus_remove(d, gid, uid, bonus_id) ==
    IF gid = NoGuild THEN Result(d, Msg(ServerOnly), <<>>)
    ELSE Result([d EXCEPT
                   !.bonuses = Drop(@, {k \in DOMAIN @ :
                       k = bonus_id /\ @[k].guild_id = gid /\ @[k].user_id = uid})],
                [text |-> "Removed bonus", value |-> bonus_id], <<>>)

-----------------------------------------------------------------------------
(* Checks: /roll *)

Conflict == "Can't have both advantage and disadvantage."

Success == "Success"

Failure == "Failure"

Nat1 == "Nat 1 (Complication)"

Nat20 == "Nat 20 (Automatic)"

\* A check that lets both modifiers through.
conflicting_never(advantage, disadvantage) == FALSE

\* if advantage and disadvantage
conflicting(advantage, disadvantage) == advantage /\ disadvantage

\* A choice that takes the first die whatever the modifiers.
chosen_first_die(advantage, disadvantage, d1, d2) == d1

\* d20 = max(d1, d2) if advantage else (min(d1, d2) if disadvantage else d1)
chosen(advantage, disadvantage, d1, d2) ==
    IF advantage THEN Max(d1, d2)
    ELSE IF disadvantage THEN Min(d1, d2)
    ELSE d1

\* An outcome in which a natural 20 is compared like any other die.
roll_outcome_without_nat20(total, dc, d20) ==
    IF d20 = 1 THEN Nat1
    ELSE IF total >= dc THEN Success ELSE Failure

\* outcome of /roll when a dc is given
roll_outcome(total, dc, d20) ==
    LET outcome == IF total >= dc \/ d20 = 20 THEN Success ELSE Failure
    IN IF d20 = 1 THEN Nat1
       ELSE IF d20 = 20 THEN Nat20
       ELSE outcome

\* A tag that knows no botch.
nat_without_botch(d20) == IF d20 = 20 THEN " (CRIT!)" ELSE ""

\* nat = " (CRIT!)" if d20 == 20 else (" (BOTCH)" if d20 == 1 else "")
nat(d20) == IF d20 = 20 THEN " (CRIT!)" ELSE IF d20 = 1 THEN " (BOTCH)" ELSE ""

\* The embed of a check: single says that its first field is "d20" (one
\* d20, that can be a natural 1 or 20), dice is the value of that field and
\* nat the tag behind it (the field "Dice" of other dice has none), dc and
\* outcome are <<>> and None when no dc was given.
Rolls(single, dice, t, situational, total, dc, outcome) ==
    [text |-> "rolls", single |-> single, dice |-> dice,
     nat |-> IF single THEN nat(dice) ELSE None, base |-> t[1],
     extra |-> t[2], situational |-> situational, total |-> total,
     dc |-> dc, outcome |-> outcome]

\* dc is <<>> for None and <<n>> for n; d1 and d2 are what the two calls of
\* random.randint(1, 20) return.
roll(d, gid, uid, skill, advantage, disadvantage, dc, bonus, as_name, d1, d2) ==
    LET actor == resolve_actor_for_roll(d, gid, uid, as_name)
        db1 == IF actor.kind = "pc" THEN ensure_player(d, gid, uid, None) ELSE d
        t == IF actor.kind = "pc"
             THEN get_skill_total_pc(db1, gid, uid, skill)
             ELSE npc_skill_total(db1, actor.npc_id, skill)
        d20 == chosen(advantage, disadvantage, d1, d2)
        total == d20 + t[3] + bonus
        outcome == IF dc # <<>> THEN roll_outcome(total, dc[1], d20) ELSE None
    IN IF conflicting(advantage, disadvantage) THEN Result(d, Msg(Conflict), <<>>)
       ELSE IF gid = NoGuild THEN Result(d, Msg(ServerOnly), <<>>)
       ELSE Result(db1, Rolls(TRUE, d20, t, bonus, total, dc, outcome), <<d1, d2>>)

-----------------------------------------------------------------------------
(* Checks: the !r command *)

TryText == "Try: !r 1d20 stealth"

FirstTokenDice == "First token should be a dice expression like 1d20."

CouldntParse == "Couldn't parse dice."

DicePositive == "Dice must be positive."

\* [t.lower() for t in tokens]
lowered(tokens) == [i \in 1..Len(tokens) |-> lower(tokens[i])]

\* tokens with the two tokens at i and i + 1 deleted: del tokens[i:i+2]
del_pair(tokens, i) == SubSeq(tokens, 1, i - 1) \o SubSeq(tokens, i + 2, Len(tokens))

\* tokens.pop(i)
pop(tokens, i) == SubSeq(tokens, 1, i - 1) \o SubSeq(tokens, i + 1, Len(tokens))

\* tok names skill s, in full or by a prefix of three characters or more
names_skill(tok, s) == lower(tok) = s \/ (Len(tok) >= 3 /\ startswith(s, lower(tok)))

_pick_skill_token(tokens) ==
    LET low == lowered(tokens)
        full == {i \in 1..Len(SKILLS) : \E j \in 1..Len(low) : low[j] = SKILLS[i]}
        part == {i \in 1..Len(SKILLS) :
                    \E j \in 1..Len(low) : Len(low[j]) >= 3 /\ startswith(SKILLS[i], low[j])}
    IN IF full # {} THEN SKILLS[CHOOSE i \in full : \A k \in full : i <= k]
       ELSE IF part # {} THEN SKILLS[CHOOSE i \in part : \A k \in part : i <= k]
       ELSE None

RECURSIVE parse_dc(_, _, _)
\* The loop over "vs 15" / "dc 15": i is the position looked at, dc the
\* difficulty found so far.
parse_dc(tokens, i, dc) ==
    IF ~(i < Len(tokens)) THEN [dc |-> dc, tokens |-> tokens]
    ELSE IF lower(tokens[i]) \in {"vs", "dc"} /\ int(tokens[i + 1]).ok
         THEN parse_dc(del_pair(tokens, i), i, <<int(tokens[i + 1]).val>>)
         ELSE parse_dc(tokens, i + 1, dc)

\* 'as NAME': the first "as" that has a token after it
parse_as(tokens) ==
    LET at == {i \in 1..Len(tokens) : lower(tokens[i]) = "as" /\ i < Len(tokens)}
        i == CHOOSE x \in at : \A y \in at : x <= y
    IN IF at = {} THEN [as_name |-> None, tokens |-> tokens]
       ELSE [as_name |-> tokens[i + 1], tokens |-> del_pair(tokens, i)]

\* skill = _pick_skill_token(tokens), and the first token naming it removed
parse_skill(tokens) ==
    LET skill == _pick_skill_token(tokens)
        at == {i \in 1..Len(tokens) : names_skill(tokens[i], skill)}
        i == CHOOSE x \in at : \A y \in at : x <= y
    IN IF skill = None \/ at = {} THEN [skill |-> skill, tokens |-> tokens]
       ELSE [skill |-> skill, tokens |-> pop(tokens, i)]

\* any(t.lower() in words for t in tokens)
any_in(tokens, words) == \E i \in 1..Len(tokens) : lower(tokens[i]) \in words

\* What r_prefix has read from its text when it turns to the database.
Parsed(d_expr, dice_n, dice_sides, advantage, disadvantage, dc, as_name, with_skill) ==
    [error |-> None, d_expr |-> d_expr, dice_n |-> dice_n, dice_sides |-> dice_sides,
     advantage |-> advantage, disadvantage |-> disadvantage, dc |-> dc,
     as_name |-> as_name, skill |-> with_skill.skill,
     note |-> IF strip(join(with_skill.tokens)) = "" THEN None
              ELSE strip(join(with_skill.tokens))]

\* 'as NAME', then the skill, of the tokens the dc loop left
parse_actor(d_expr, dice_n, dice_sides, advantage, disadvantage, dc, with_as) ==
    Parsed(d_expr, dice_n, dice_sides, advantage, disadvantage, dc,
           with_as.as_name, parse_skill(with_as.tokens))

\* the dc loop, then 'as NAME', of the tokens after the dice expression
parse_target(d_expr, dice_n, dice_sides, advantage, disadvantage, with_dc) ==
    parse_actor(d_expr, dice_n, dice_sides, advantage, disadvantage, with_dc.dc,
                parse_as(with_dc.tokens))

\* adv/dis of the tokens after the dice expression
parse_modifiers(d_expr, dice_n, dice_sides, tokens, advantage, disadvantage) ==
    IF conflicting(advantage, disadvantage) THEN [error |-> Conflict]
    ELSE parse_target(d_expr, dice_n, dice_sides, advantage, disadvantage,
                      parse_dc(tokens, 1, <<>>))

\* dice_n and dice_sides are int(dice_n or "1") and int(dice_sides)
parse_counts(d_expr, dice_n, dice_sides, tokens) ==
    IF ~dice_n.ok \/ ~dice_sides.ok THEN [error |-> CouldntParse]
    ELSE parse_modifiers(d_expr, dice_n.val, dice_sides.val, tokens,
                         any_in(tokens, {"adv", "advantage"}),
                         any_in(tokens, {"dis", "disadvantage"}))

\* dice_n, dice_sides = d_expr.split("d", 1), cut being the place of the first
\* "d" of d_expr; dice_n = int(dice_n or "1"), dice_n being "" when cut is 1
parse_dice(d_expr, cut, tokens) ==
    IF cut = 0 THEN [error |-> FirstTokenDice]
    ELSE parse_counts(d_expr,
                      int(IF cut = 1 THEN "1" ELSE SubSeq(d_expr, 1, cut - 1)),
                      int(SubSeq(d_expr, cut + 1, Len(d_expr))), tokens)

\* tokens = text.split(); d_expr = tokens[0].lower()
parse_tokens(tokens) ==
    IF Len(tokens) = 0 THEN [error |-> TryText]
    ELSE parse_dice(lower(tokens[1]), IndexIn(lower(tokens[1]), "d", 1), Tail(tokens))

\* What r_prefix reads from its text before it touches the database: error
\* is the reply of an early return, None when there is none.
r_parse(text) == parse_tokens(split(text))

\* The calls of random.randint that a parsed !r makes: how many, and the
\* sides of each.
draws(p) ==
    IF p.error # None \/ p.dice_n < 1 \/ p.dice_sides < 1
    THEN [count |-> 0, sides |-> 1]
    ELSE IF p.dice_sides = 20 /\ p.dice_n = 1 /\ (p.advantage \/ p.disadvantage)
    THEN [count |-> 2, sides |-> 20]
    ELSE [count |-> Min(p.dice_n, 50), sides |-> p.dice_sides]

\* All the values that the calls of random.randint of a !r can return.
Streams(n) == [1..n.count -> 1..n.sides]

RECURSIVE sum(_)
sum(rolls) == IF Len(rolls) = 0 THEN 0 ELSE Head(rolls) + sum(Tail(rolls))

\* An outcome in which a natural 1 is compared like any other die.
r_outcome_without_nat1(dice_n, dice_sides, dice_total, total, dc) ==
    IF dice_sides = 20 /\ dice_n = 1 /\ dice_total = 20 THEN Nat20
    ELSE IF dice_total = 20 \/ total >= dc THEN Success ELSE Failure

\* outcome of !r when a dc is given
r_outcome(dice_n, dice_sides, dice_total, total, dc) ==
    LET outcome == IF dice_total = 20 \/ total >= dc THEN Success ELSE Failure
    IN IF dice_sides = 20 /\ dice_n = 1 /\ dice_total = 1 THEN Nat1
       ELSE IF dice_sides = 20 /\ dice_n = 1 /\ dice_total = 20 THEN Nat20
       ELSE outcome

\* The embed of a !r whose dice gave dice_total, t being the skill total.
r_reply(p, t, dice_total) ==
    Rolls(p.dice_sides = 20 /\ p.dice_n = 1, dice_total, t, 0, dice_total + t[3], p.dc,
          IF p.dc # <<>>
          THEN r_outcome(p.dice_n, p.dice_sides, dice_total, dice_total + t[3], p.dc[1])
          ELSE None)

\* The roll of a parsed !r on database d, t being the skill total.
r_roll(d, p, t, rng) ==
    IF p.dice_n < 1 \/ p.dice_sides < 1 THEN Result(d, Msg(DicePositive), <<>>)
    ELSE IF p.dice_sides = 20 /\ p.dice_n = 1 /\ (p.advantage \/ p.disadvantage)
    THEN Result(d,
                r_reply(p, t, IF p.advantage THEN Max(rng[1], rng[2])
                              ELSE Min(rng[1], rng[2])),
                SubSeq(rng, 1, 2))
    ELSE Result(d, r_reply(p, t, sum(SubSeq(rng, 1, Min(p.dice_n, 50)))),
                SubSeq(rng, 1, Min(p.dice_n, 50)))

\* A parsed !r of a PC, d being the database after ensure_player.
r_pc(d, gid, uid, p, rng) ==
    r_roll(d, p,
           IF p.skill = None THEN <<0, 0, 0>>
           ELSE get_skill_total_pc(d, gid, uid, p.skill),
           rng)

\* A parsed !r of an NPC.
r_npc(d, npc_id, p, rng) ==
    r_roll(d, p,
           IF p.skill = None THEN <<0, 0, 0>> ELSE npc_skill_total(d, npc_id, p.skill),
           rng)

\* A parsed !r of the actor that resolve_actor_for_roll found.
r_actor(d, gid, uid, p, rng, actor) ==
    IF actor.kind = "pc" THEN r_pc(ensure_player(d, gid, uid, None), gid, uid, p, rng)
    ELSE r_npc(d, actor.npc_id, p, rng)

\* A parsed !r.
r_parsed(d, gid, uid, p, rng) ==
    IF p.error # None THEN Result(d, Msg(p.error), <<>>)
    ELSE r_actor(d, gid, uid, p, rng, resolve_actor_for_roll(d, gid, uid, p.as_name))

\* rng is what the calls of random.randint return, in the order of the calls.
r_prefix(d, gid, uid, text, rng) ==
    IF gid = NoGuild THEN Result(d, Msg(ServerOnly), <<>>)
    ELSE r_parsed(d, gid, uid, r_parse(text), rng)

-----------------------------------------------------------------------------
(* Lineage abilities (PC): /orbing, /healing and /rest *)

\* A read of used that never finds an ability used.
used_of_never(d, gid, uid, ability) == FALSE

\* fetchval(SELECT used FROM ability_usage WHERE guild_id, user_id, ability),
\* as the condition of an if: no row is None, and None is false
used_of(d, gid, uid, ability) ==
    /\ <<gid, uid, ability>> \in DOMAIN d.ability_usage
    /\ d.ability_usage[<<gid, uid, ability>>].used

\* INSERT INTO ability_usage (.., ability, scope, used) VALUES (.., TRUE)
\* ON CONFLICT (guild_id, user_id, ability) DO UPDATE SET used=TRUE
mark_used(t, k, scope) ==
    IF k \in DOMAIN t THEN [t EXCEPT ![k].used = TRUE]
    ELSE Put(t, k, [scope |-> scope, used |-> TRUE])

\* lin is fetchval(SELECT lineage FROM players ..), None without a row.
orbing(d, gid, uid) ==
    LET lin == IF <<gid, uid>> \in DOMAIN d.players
               THEN d.players[<<gid, uid>>].lineage ELSE None
    IN IF gid = NoGuild THEN Result(d, Msg(ServerOnly), <<>>)
       ELSE IF lin # "whitelighter"
       THEN Result(d, Msg("Only Whitelighters can Orb."), <<>>)
       ELSE IF used_of(d, gid, uid, "orbing")
       THEN Result(d, Msg("Already Orbed this scene. Use /rest scope:scene."), <<>>)
       ELSE Result([d EXCEPT !.ability_usage =
                               mark_used(@, <<gid, uid, "orbing">>, "scene")],
                   Msg("Orbing activated"), <<>>)

\* A healing that adds 3 hp, or 2 rv, whatever the maximum is.
healed_uncapped(row, resource) ==
    IF resource = "hp" THEN [row EXCEPT !.hp = row.hp + 3]
    ELSE [row EXCEPT !.rv = row.rv + 2]

\* UPDATE players SET hp=LEAST(max_hp, hp+3), or SET rv=LEAST(max_rv, rv+2)
healed(row, resource) ==
    IF resource = "hp" THEN [row EXCEPT !.hp = LEAST(row.max_hp, row.hp + 3)]
    ELSE [row EXCEPT !.rv = LEAST(row.max_rv, row.rv + 2)]

\* A /healing that makes sure of the target's sheet before it looks at the
\* healer.
healing_stub_first(d, gid, uid, target, resource) ==
    LET lin == IF <<gid, uid>> \in DOMAIN d.players
               THEN d.players[<<gid, uid>>].lineage ELSE None
        d1 == ensure_player(d, gid, target, None)
        d2 == [d1 EXCEPT !.players =
                           SetRow(@, <<gid, target>>, healed(@[<<gid, target>>], resource))]
    IN IF gid = NoGuild THEN Result(d, Msg(ServerOnly), <<>>)
       ELSE IF lin # "whitelighter"
       THEN Result(d1, Msg("Only Whitelighters can Heal."), <<>>)
       ELSE IF used_of(d, gid, uid, "healing")
       THEN Result(d1, Msg("Healing already used this rest. Use /rest scope:rest."), <<>>)
       ELSE Result([d2 EXCEPT !.ability_usage =
                                mark_used(@, <<gid, uid, "healing">>, "rest")],
                   Msg("Healing applied"), <<>>)

\* d1 is the database after ensure_player(target), d2 after the UPDATE of
\* the target; the INSERT INTO ability_usage is the last statement.
healing(d, gid, uid, target, resource) ==
    LET lin == IF <<gid, uid>> \in DOMAIN d.players
               THEN d.players[<<gid, uid>>].lineage ELSE None
        d1 == ensure_player(d, gid, target, None)
        d2 == [d1 EXCEPT !.players =
                           SetRow(@, <<gid, target>>, healed(@[<<gid, target>>], resource))]
    IN IF gid = NoGuild THEN Result(d, Msg(ServerOnly), <<>>)
       ELSE IF lin # "whitelighter"
       THEN Result(d, Msg("Only Whitelighters can Heal."), <<>>)
       ELSE IF used_of(d, gid, uid, "healing")
       THEN Result(d, Msg("Healing already used this rest. Use /rest scope:rest."), <<>>)
       ELSE Result([d2 EXCEPT !.ability_usage =
                                mark_used(@, <<gid, uid, "healing">>, "rest")],
                   Msg("Healing applied"), <<>>)

\* /healing whose last statement, the INSERT INTO ability_usage, raises: the
\* statements before it are committed, each on its own, ability_usage is as
\* it was, and the user sees that the application did not respond.
healing_interrupted(d, gid, uid, target, resource) ==
    LET out == healing(d, gid, uid, target, resource)
    IN IF out.resp.text # "Healing applied" THEN out
       ELSE Result([out.db EXCEPT !.ability_usage = d.ability_usage],
                   Msg("The application did not respond"), <<>>)

\* A reset that forgets the scope it was asked for.
reset_scope_ignoring_scope(t, gid, uid, scope) ==
    [k \in DOMAIN t |->
        IF k[1] = gid /\ k[2] = uid THEN [t[k] EXCEPT !.used = FALSE] ELSE t[k]]

\* A reset that forgets whose entries it was asked to reset.
reset_scope_every_user(t, gid, uid, scope) ==
    [k \in DOMAIN t |->
        IF k[1] = gid /\ t[k].scope = scope THEN [t[k] EXCEPT !.used = FALSE] ELSE t[k]]

\* UPDATE ability_usage SET used=FALSE WHERE guild_id, user_id, scope
reset_scope(t, gid, uid, scope) ==
    [k \in DOMAIN t |->
        IF k[1] = gid /\ k[2] = uid /\ t[k].scope = scope
        THEN [t[k] EXCEPT !.used = FALSE] ELSE t[k]]

\* A long rest that restores nothing.
restore_rv_skipped(t, k) == t

\* UPDATE players SET rv=max_rv WHERE guild_id, user_id
restore_rv(t, k) == IF k \in DOMAIN t THEN [t EXCEPT ![k].rv = t[k].max_rv] ELSE t

rest(d, gid, uid, scope, long_rest) ==
    LET me == <<gid, uid>>
    IN IF gid = NoGuild THEN Result(d, Msg(ServerOnly), <<>>)
       ELSE IF scope = "scene"
       THEN Result([d EXCEPT !.ability_usage = reset_scope(@, gid, uid, "scene")],
                   Msg("Scene counters reset."), <<>>)
       ELSE IF long_rest
       THEN Result([d EXCEPT !.ability_usage = reset_scope(@, gid, uid, "rest"),
                             !.players = restore_rv(@, me)],
                   Msg("Rest counters reset. RV fully restored."), <<>>)
       ELSE Result([d EXCEPT !.ability_usage = reset_scope(@, gid, uid, "rest")],
                   Msg("Rest counters reset."), <<>>)

-----------------------------------------------------------------------------
(* Favors (PC): /favor *)

\* A spend that takes two favors.
spend_favor_twice(t, k) == [t EXCEPT ![k].favors = @ - 2]

\* UPDATE players SET favors=favors-1 WHERE guild_id, user_id
spend_favor(t, k) == [t EXCEPT ![k].favors = @ - 1]

\* UPDATE players SET favors=1 WHERE guild_id
reset_favors(t, gid) ==
    [k \in DOMAIN t |-> IF k[1] = gid THEN [t[k] EXCEPT !.favors = 1] ELSE t[k]]

\* fav is int(fetchval(SELECT favors FROM players ..) or 0).
favor(d, gid, uid, perm, spend, reset) ==
    LET me == <<gid, uid>>
        fav == IF me \in DOMAIN d.players THEN d.players[me].favors ELSE 0
    IN IF gid = NoGuild THEN Result(d, Msg(ServerOnly), <<>>)
       ELSE IF reset
       THEN IF ~IsGM(perm) THEN Result(d, Msg(GmOnly), <<>>)
            ELSE Result([d EXCEPT !.players = reset_favors(@, gid)],
                        Msg("Favors reset to 1 for this server."), <<>>)
       ELSE IF spend
       THEN IF fav <= 0 THEN Result(d, Msg("You have no Favors left."), <<>>)
            ELSE Result([d EXCEPT !.players = spend_favor(@, me)],
                        Msg("Spent **1 Favor**."), <<>>)
       ELSE Result(d, [text |-> "You have", value |-> fav], <<>>)

-----------------------------------------------------------------------------
(* Inventory and weaknesses (PC): /inv_add, /weakness_add, /weakness_remove *)

\* INSERT INTO inventory .. ON CONFLICT DO UPDATE SET qty = inventory.qty +
\* EXCLUDED.qty, with qty = max(1, qty or 1)
inv_add(d, gid, uid, item, qty) ==
    LET k == <<gid, uid, item>>
        q == Max(1, IF qty = 0 THEN 1 ELSE qty)
    IN IF gid = NoGuild THEN Result(d, Msg(ServerOnly), <<>>)
       ELSE Result([d EXCEPT !.inventory =
                               IF k \in DOMAIN @ THEN [@ EXCEPT ![k] = @ + q]
                               ELSE Put(@, k, q)],
                   [text |-> "Added", value |-> q], <<>>)

\* A /weakness_add that lets a third weakness in.
weakness_add_up_to_three(d, gid, uid, text) ==
    LET count == Cardinality({i \in DOMAIN d.weaknesses :
                     d.weaknesses[i].guild_id = gid /\ d.weaknesses[i].user_id = uid})
    IN IF gid = NoGuild THEN Result(d, Msg(ServerOnly), <<>>)
       ELSE IF count > 2
       THEN Result(d, Msg("You already have two weaknesses. Use /weakness_remove first."),
                   <<>>)
       ELSE Result([d EXCEPT
                      !.weakness_seq = @ + 1,
                      !.weaknesses = Put(@, d.weakness_seq + 1,
                                         [guild_id |-> gid, user_id |-> uid,
                                          text |-> text])],
                   Msg("Weakness saved."), <<>>)

\* count is fetchval(SELECT COUNT(*) FROM weaknesses WHERE guild_id, user_id);
\* the id of the new row is the next value of the BIGSERIAL.
weakness_add(d, gid, uid, text) ==
    LET count == Cardinality({i \in DOMAIN d.weaknesses :
                     d.weaknesses[i].guild_id = gid /\ d.weaknesses[i].user_id = uid})
    IN IF gid = NoGuild THEN Result(d, Msg(ServerOnly), <<>>)
       ELSE IF count >= 2
       THEN Result(d, Msg("You already have two weaknesses. Use /weakness_remove first."),
                   <<>>)
       ELSE Result([d EXCEPT
                      !.weakness_seq = @ + 1,
                      !.weaknesses = Put(@, d.weakness_seq + 1,
                                         [guild_id |-> gid, user_id |-> uid,
                                          text |-> text])],
                   Msg("Weakness saved."), <<>>)

\* DELETE FROM weaknesses WHERE id, guild_id, user_id
weakness_remove(d, gid, uid, weakness_id) ==
    IF gid = NoGuild THEN Result(d, Msg(ServerOnly), <<>>)
    ELSE Result([d EXCEPT
                   !.weaknesses = Drop(@, {k \in DOMAIN @ :
                       k = weakness_id /\ @[k].guild_id = gid /\ @[k].user_id = uid})],
                Msg("Weakness removed."), <<>>)

-----------------------------------------------------------------------------
(* Handlers in flight.  Every interaction runs as a task of its own on the  *)
(* one event loop; a handler gives the loop up at each await of a statement *)
(* on its pooled connection.  No handler opens a transaction or takes a     *)
(* lock: each statement is committed on its own, and between two statements *)
(* of one handler the statements of another may run.                        *)

\* A handler that was called and has not run its first statement: pc is
\* the statement it runs next, local what it keeps of its reads.
Task(r) == [req |-> r, pc |-> 1, local |-> None, reply |-> None]

\* The handler suspended before statement pc.
Goto(t, pc, local) == [t EXCEPT !.pc = pc, !.local = local]

\* The handler after send_message and return: pc 0.
Return(t, reply) == [t EXCEPT !.pc = 0, !.local = None, !.reply = reply]

\* What one statement leaves: the database and the task that ran it.
Stepped(d, t) == [db |-> d, task |-> t]

\* ensure_player a statement at a time, its first statement being statement
\* base + 1 of the handler that called it: the SELECT 1, the INSERT INTO
\* players when the SELECT found no row (a row inserted since then violates
\* the primary key and the handler dies), an INSERT INTO skills per skill.
ensure_player_step(d, t, gid, uid, lineage, base) ==
    LET n == t.pc - base
        me == <<gid, uid>>
    IN IF n = 1
       THEN Stepped(d, Goto(t, IF me \in DOMAIN d.players THEN t.pc + 2 ELSE t.pc + 1, None))
       ELSE IF n = 2
       THEN IF me \in DOMAIN d.players
            THEN Stepped(d, Return(t, Msg("The application did not respond")))
            ELSE Stepped([d EXCEPT !.players =
                            Put(@, me, PlayerDefaults(IF lineage = None THEN "human"
                                                      ELSE lineage))],
                         Goto(t, t.pc + 1, None))
       ELSE Stepped([d EXCEPT !.skills = InsertIgnore(@, <<gid, uid, SKILLS[n - 2]>>, 0)],
                    Goto(t, t.pc + 1, None))

\* The statements of create after ensure_player, in the order of the source.
create_statements(r) ==
    <<"baseline", "ability_usage", "skills", "slot", "slot", "slot", "slot", "slot">>
    \o (IF r.lineage = "whitelighter" THEN <<"rv", "orbing", "healing">>
        ELSE IF r.lineage = "human"
        THEN <<"connections">>
             \o (IF r.human_bonus_skill # None
                    /\ r.human_bonus_skill \in SeqSet(Picks(r.slots))
                 THEN <<"human_bonus_skill">> ELSE <<>>)
        ELSE IF r.lineage = "witch" /\ r.witch_bonus_skill # None
                /\ r.witch_bonus_skill \in SeqSet(Picks(r.slots))
        THEN <<"witch_bonus_skill">>
        ELSE <<>>)
    \o <<"lineage">>

\* The database after statement s of create, the n-th after ensure_player.
create_statement(d, r, s, n) ==
    LET me == <<r.gid, r.uid>>
        mine(t) == {k \in DOMAIN t : k[1] = r.gid /\ k[2] = r.uid}
    IN CASE s = "baseline" ->
              [d EXCEPT !.players = SetRow(@, me, baseline(@[me]))]
         [] s = "ability_usage" ->
              [d EXCEPT !.ability_usage = Drop(@, mine(@))]
         [] s = "skills" ->
              [d EXCEPT !.skills = reset_skills(@, mine(@))]
         [] s = "slot" ->
              [d EXCEPT !.skills = SetRow(@, <<r.gid, r.uid, r.slots[n - 3]>>,
                                          <<3, 2, 2, 1, 1>>[n - 3])]
         [] s = "rv" ->
              [d EXCEPT !.players = SetRow(@, me,
                            [@[me] EXCEPT !.rv = @ + 2, !.max_rv = @ + 2])]
         [] s = "orbing" ->
              [d EXCEPT !.ability_usage =
                            InsertIgnore(@, <<r.gid, r.uid, "orbing">>,
                                         [scope |-> "scene", used |-> FALSE])]
         [] s = "healing" ->
              [d EXCEPT !.ability_usage =
                            InsertIgnore(@, <<r.gid, r.uid, "healing">>,
                                         [scope |-> "rest", used |-> FALSE])]
         [] s = "connections" ->
              [d EXCEPT !.players = SetRow(@, me, [@[me] EXCEPT !.connections = @ + 3])]
         [] s = "human_bonus_skill" ->
              [d EXCEPT !.skills = raise_skill(@, <<r.gid, r.uid, r.human_bonus_skill>>, 1)]
         [] s = "witch_bonus_skill" ->
              [d EXCEPT !.skills = raise_skill(@, <<r.gid, r.uid, r.witch_bonus_skill>>, 2)]
         [] s = "lineage" ->
              [d EXCEPT !.players = SetRow(@, me, [@[me] EXCEPT !.lineage = r.lineage])]

\* /create a statement at a time.
create_step(d, t) ==
    LET r == t.req
        called == 2 + Len(SKILLS)
        n == t.pc - called
    IN IF r.gid = NoGuild THEN Stepped(d, Return(t, Msg(ServerOnly)))
       ELSE IF ~valid_picks(r.slots) THEN Stepped(d, Return(t, Msg(PickFive)))
       ELSE IF n <= 0 THEN ensure_player_step(d, t, r.gid, r.uid, r.lineage, 0)
       ELSE IF n < Len(create_statements(r))
       THEN Stepped(create_statement(d, r, create_statements(r)[n], n),
                    Goto(t, t.pc + 1, None))
       ELSE Stepped(create_statement(d, r, create_statements(r)[n], n),
                    Return(t, Msg("created")))

\* /hp a statement at a time: the fetchrow, after which newv and mx are
\* local values, and the UPDATE players SET hp=$1.
hp_step(d, t) ==
    LET r == t.req
        k == <<r.gid, r.uid>>
    IN IF r.gid = NoGuild THEN Stepped(d, Return(t, Msg(ServerOnly)))
       ELSE IF t.pc = 1
       THEN IF k \notin DOMAIN d.players THEN Stepped(d, Return(t, Msg(NoCharacter)))
            ELSE Stepped(d, Goto(t, 2,
                     [newv |-> newv(d.players[k].hp, r.amount, d.players[k].max_hp),
                      mx |-> d.players[k].max_hp]))
       ELSE Stepped([d EXCEPT !.players =
                        IF k \in DOMAIN @ THEN [@ EXCEPT ![k].hp = t.local.newv] ELSE @],
                    Return(t, [text |-> "HP now", value |-> t.local.newv,
                               max |-> t.local.mx]))

\* /rv a statement at a time.
rv_step(d, t) ==
    LET r == t.req
        k == <<r.gid, r.uid>>
    IN IF r.gid = NoGuild THEN Stepped(d, Return(t, Msg(ServerOnly)))
       ELSE IF t.pc = 1
       THEN IF k \notin DOMAIN d.players THEN Stepped(d, Return(t, Msg(NoCharacter)))
            ELSE Stepped(d, Goto(t, 2,
                     [newv |-> newv(d.players[k].rv, r.amount, d.players[k].max_rv),
                      mx |-> d.players[k].max_rv]))
       ELSE Stepped([d EXCEPT !.players =
                        IF k \in DOMAIN @ THEN [@ EXCEPT ![k].rv = t.local.newv] ELSE @],
                    Return(t, [text |-> "RV now", value |-> t.local.newv,
                               max |-> t.local.mx]))

\* /favor a statement at a time: a spend is the SELECT favors, then the
\* UPDATE players SET favors=favors-1.
favor_step(d, t) ==
    LET r == t.req
        me == <<r.gid, r.uid>>
        fav == IF me \in DOMAIN d.players THEN d.players[me].favors ELSE 0
    IN IF r.gid = NoGuild THEN Stepped(d, Return(t, Msg(ServerOnly)))
       ELSE IF r.reset
       THEN IF ~IsGM(r.perm) THEN Stepped(d, Return(t, Msg(GmOnly)))
            ELSE Stepped([d EXCEPT !.players = reset_favors(@, r.gid)],
                         Return(t, Msg("Favors reset to 1 for this server.")))
       ELSE IF ~r.spend
       THEN Stepped(d, Return(t, [text |-> "You have", value |-> fav]))
       ELSE IF t.pc = 1
       THEN IF fav <= 0 THEN Stepped(d, Return(t, Msg("You have no Favors left.")))
            ELSE Stepped(d, Goto(t, 2, None))
       ELSE Stepped([d EXCEPT !.players =
                        IF me \in DOMAIN @ THEN spend_favor(@, me) ELSE @],
                    Return(t, Msg("Spent **1 Favor**.")))

\* /orbing a statement at a time: the SELECT lineage, the SELECT used, the
\* INSERT .. ON CONFLICT DO UPDATE SET used=TRUE.
orbing_step(d, t) ==
    LET r == t.req
        lin == IF <<r.gid, r.uid>> \in DOMAIN d.players
               THEN d.players[<<r.gid, r.uid>>].lineage ELSE None
    IN IF r.gid = NoGuild THEN Stepped(d, Return(t, Msg(ServerOnly)))
       ELSE IF t.pc = 1
       THEN IF lin # "whitelighter"
            THEN Stepped(d, Return(t, Msg("Only Whitelighters can Orb.")))
            ELSE Stepped(d, Goto(t, 2, None))
       ELSE IF t.pc = 2
       THEN IF used_of(d, r.gid, r.uid, "orbing")
            THEN Stepped(d, Return(t, Msg("Already Orbed this scene. Use /rest scope:scene.")))
            ELSE Stepped(d, Goto(t, 3, None))
       ELSE Stepped([d EXCEPT !.ability_usage =
                        mark_used(@, <<r.gid, r.uid, "orbing">>, "scene")],
                    Return(t, Msg("Orbing activated")))

\* /healing a statement at a time: the SELECT lineage, the SELECT used, the
\* statements of ensure_player(target), the UPDATE of the target, the
\* INSERT .. ON CONFLICT DO UPDATE SET used=TRUE.
healing_step(d, t) ==
    LET r == t.req
        lin == IF <<r.gid, r.uid>> \in DOMAIN d.players
               THEN d.players[<<r.gid, r.uid>>].lineage ELSE None
        called == 2 + Len(SKILLS)
        you == <<r.gid, r.target>>
    IN IF r.gid = NoGuild THEN Stepped(d, Return(t, Msg(ServerOnly)))
       ELSE IF t.pc = 1
       THEN IF lin # "whitelighter"
            THEN Stepped(d, Return(t, Msg("Only Whitelighters can Heal.")))
            ELSE Stepped(d, Goto(t, 2, None))
       ELSE IF t.pc = 2
       THEN IF used_of(d, r.gid, r.uid, "healing")
            THEN Stepped(d, Return(t, Msg("Healing already used this rest. Use /rest scope:rest.")))
            ELSE Stepped(d, Goto(t, 3, None))
       ELSE IF t.pc <= 2 + called
       THEN ensure_player_step(d, t, r.gid, r.target, None, 2)
       ELSE IF t.pc = 3 + called
       THEN Stepped([d EXCEPT !.players =
                        IF you \in DOMAIN @ THEN SetRow(@, you, healed(@[you], r.resource))
                        ELSE @],
                    Goto(t, t.pc + 1, None))
       ELSE Stepped([d EXCEPT !.ability_usage =
                        mark_used(@, <<r.gid, r.uid, "healing">>, "rest")],
                    Return(t, Msg("Healing applied")))

\* /rest a statement at a time: the UPDATE ability_usage SET used=FALSE of
\* the scope and, for a long rest, the UPDATE players SET rv=max_rv.
rest_step(d, t) ==
    LET r == t.req
    IN IF r.gid = NoGuild THEN Stepped(d, Return(t, Msg(ServerOnly)))
       ELSE IF r.scope = "scene"
       THEN Stepped([d EXCEPT !.ability_usage = reset_scope(@, r.gid, r.uid, "scene")],
                    Return(t, Msg("Scene counters reset.")))
       ELSE IF t.pc = 1
       THEN Stepped([d EXCEPT !.ability_usage = reset_scope(@, r.gid, r.uid, "rest")],
                    IF r.long_rest THEN Goto(t, 2, None)
                    ELSE Return(t, Msg("Rest counters reset.")))
       ELSE Stepped([d EXCEPT !.players = restore_rv(@, <<r.gid, r.uid>>)],
                    Return(t, Msg("Rest counters reset. RV fully restored.")))

-----------------------------------------------------------------------------
(* Running a handler *)

Commit(d) ==
    /\ players' = d.players
    /\ skills' = d.skills
    /\ bonuses' = d.bonuses
    /\ bonus_seq' = d.bonus_seq
    /\ inventory' = d.inventory
    /\ weaknesses' = d.weaknesses
    /\ weakness_seq' = d.weakness_seq
    /\ ability_usage' = d.ability_usage
    /\ npc_chars' = d.npc_chars
    /\ npc_seq' = d.npc_seq
    /\ npc_skills' = d.npc_skills
    /\ npc_bonuses' = d.npc_bonuses

\* One command, from the request to the reply.
Handle(request, result) ==
    /\ req' = request
    /\ Commit(result.db)
    /\ resp' = result.resp
    /\ rolled' = result.rolled
    /\ UNCHANGED tasks

NoRequest == [cmd |-> "none"]

Init ==
    /\ players = EmptyTable
    /\ skills = EmptyTable
    /\ bonuses = EmptyTable
    /\ bonus_seq = 0
    /\ inventory = EmptyTable
    /\ weaknesses = EmptyTable
    /\ weakness_seq = 0
    /\ ability_usage = EmptyTable
    /\ npc_chars = EmptyTable
    /\ npc_seq = 0
    /\ npc_skills = EmptyTable
    /\ npc_bonuses = EmptyTable
    /\ req = NoRequest
    /\ resp = Msg("")
    /\ rolled = <<>>
    /\ tasks = <<>>

-----------------------------------------------------------------------------
(* Creation and advancement: /create, /npc_create and /gm_skill *)

\* The server of the model; a player (user 1) and a game master (user 2).
Guild == 1

Player == 1

GM == 2

DistA == <<"combat", "stealth", "tech", "occult", "insight">>

DistB == <<"stealth", "willpower", "tech", "persuade", "athletics">>

\* A duplicate; a missing slot.
DistDup == <<"combat", "combat", "stealth", "tech", "occult">>

DistShort == <<"combat", "stealth", None, "occult", "insight">>

\* <<human_bonus_skill, witch_bonus_skill>> of a creation request.
BonusPairs == { <<None, None>>, <<"stealth", None>>, <<None, "stealth">>,
                <<"investigate", "investigate">> }

CreateReq(gid, uid, lineage, slots, hb, wb) ==
    [cmd |-> "create", gid |-> gid, uid |-> uid, lineage |-> lineage,
     slots |-> slots, human_bonus_skill |-> hb, witch_bonus_skill |-> wb]

NpcCreateReq(gid, uid, perm, name, lineage, slots, hb, wb) ==
    [cmd |-> "npc_create", gid |-> gid, uid |-> uid, perm |-> perm,
     name |-> name, lineage |-> lineage, slots |-> slots,
     human_bonus_skill |-> hb, witch_bonus_skill |-> wb]

GmSkillReq(gid, perm, member, skill, amount) ==
    [cmd |-> "gm_skill", gid |-> gid, perm |-> perm, member |-> member,
     skill |-> skill, amount |-> amount]

CreateRequests ==
    {CreateReq(Guild, Player, l, s, b[1], b[2]) :
        l \in {"human", "witch"}, s \in {DistA, DistB}, b \in BonusPairs}
    \cup {CreateReq(Guild, Player, l, s, b, b) :
            l \in {"whitelighter", "demon"}, s \in {DistA, DistB},
            b \in {None, "stealth"}}
    \cup {CreateReq(Guild, Player, "witch", DistDup, "stealth", "stealth"),
          CreateReq(Guild, Player, "whitelighter", DistShort, None, None),
          CreateReq(NoGuild, Player, "demon", DistA, None, None)}

NpcCreateRequests ==
    {NpcCreateReq(Guild, GM, TRUE, "Bob", "demon", s, None, None) :
        s \in {DistA, DistB}}
    \cup {NpcCreateReq(Guild, GM, TRUE, "Bob", "whitelighter", DistA, None, None),
          NpcCreateReq(Guild, GM, TRUE, "Bob", "human", DistA, "stealth", None),
          NpcCreateReq(Guild, GM, TRUE, "Bob", "witch", DistB, None, "stealth"),
          NpcCreateReq(Guild, GM, TRUE, "Bob", "human", DistDup, "stealth", None),
          NpcCreateReq(Guild, GM, TRUE, "Bob", "demon", DistShort, None, None),
          NpcCreateReq(Guild, Player, FALSE, "Bob", "demon", DistA, None, None)}

GmSkillRequests ==
    {GmSkillReq(Guild, TRUE, Player, "combat", a) : a \in {-1, 2, 7}}
    \cup {GmSkillReq(Guild, FALSE, Player, "combat", 2)}

Create ==
    \E r \in CreateRequests :
        \E out \in {create(DB, r.gid, r.uid, r.lineage, r.slots,
                           r.human_bonus_skill, r.witch_bonus_skill)} :
            Handle(r, out)

NpcCreate ==
    \E r \in NpcCreateRequests :
        \E out \in {npc_create(DB, r.gid, r.uid, r.perm, r.name, r.lineage,
                               r.slots, r.human_bonus_skill, r.witch_bonus_skill)} :
            Handle(r, out)

GmSkill ==
    \E r \in GmSkillRequests :
        \E out \in {gm_skill(DB, r.gid, r.perm, r.member, r.skill, r.amount)} :
            Handle(r, out)

Next == Create \/ NpcCreate \/ GmSkill

Spec == Init /\ [][Next]_vars

-----------------------------------------------------------------------------
(* Resource pools: /hp, /rv, /npc_hp and /npc_rv on sheets that /create    *)
(* and /npc_create made                                                    *)

AdjustReq(cmd, gid, uid, perm, name, amount) ==
    [cmd |-> cmd, gid |-> gid, uid |-> uid, perm |-> perm, name |-> name,
     amount |-> amount]

PoolCreateRequests ==
    {CreateReq(Guild, Player, l, DistA, None, None) : l \in {"whitelighter", "demon"}}

PoolNpcCreateRequests ==
    {NpcCreateReq(Guild, GM, TRUE, "Bob", l, DistA, None, None) :
        l \in {"whitelighter"}}

HpRequests ==
    {AdjustReq("hp", Guild, Player, FALSE, None, a) : a \in {3, -2, 0, 15, -15}}
    \cup {AdjustReq("hp", NoGuild, Player, FALSE, None, 3)}

RvRequests ==
    {AdjustReq("rv", Guild, Player, FALSE, None, a) : a \in {3, 0, -9}}

NpcHpRequests ==
    {AdjustReq("npc_hp", Guild, GM, TRUE, "Bob", a) : a \in {4, -15}}
    \cup {AdjustReq("npc_hp", Guild, GM, TRUE, "Zed", 4),
          AdjustReq("npc_hp", Guild, Player, FALSE, "Bob", 4)}

NpcRvRequests ==
    {AdjustReq("npc_rv", Guild, GM, TRUE, "Bob", a) : a \in {3, -9}}

PoolCreate ==
    \E r \in PoolCreateRequests :
        \E out \in {create(DB, r.gid, r.uid, r.lineage, r.slots,
                           r.human_bonus_skill, r.witch_bonus_skill)} :
            Handle(r, out)

PoolNpcCreate ==
    \E r \in PoolNpcCreateRequests :
        \E out \in {npc_create(DB, r.gid, r.uid, r.perm, r.name, r.lineage,
                               r.slots, r.human_bonus_skill, r.witch_bonus_skill)} :
            Handle(r, out)

Hp ==
    \E r \in HpRequests :
        \E out \in {hp(DB, r.gid, r.uid, r.amount)} : Handle(r, out)

Rv ==
    \E r \in RvRequests :
        \E out \in {rv(DB, r.gid, r.uid, r.amount)} : Handle(r, out)

NpcHp ==
    \E r \in NpcHpRequests :
        \E out \in {npc_hp(DB, r.gid, r.uid, r.perm, r.name, r.amount)} :
            Handle(r, out)

NpcRv ==
    \E r \in NpcRvRequests :
        \E out \in {npc_rv(DB, r.gid, r.uid, r.perm, r.name, r.amount)} :
            Handle(r, out)

NextPools == PoolCreate \/ PoolNpcCreate \/ Hp \/ Rv \/ NpcHp \/ NpcRv

SpecPools == Init /\ [][NextPools]_vars

-----------------------------------------------------------------------------
(* The bonus ledger: /bonus_add and /bonus_remove beside /create and       *)
(* /npc_create                                                             *)

\* The ids that bonuses.id hands out in a run.
MaxBonusId == 3

BonusAddReq(gid, uid, skill, amount) ==
    [cmd |-> "bonus_add", gid |-> gid, uid |-> uid, skill |-> skill,
     amount |-> amount]

BonusRemoveReq(gid, uid, bonus_id) ==
    [cmd |-> "bonus_remove", gid |-> gid, uid |-> uid, bonus_id |-> bonus_id]

LedgerCreateRequests == {CreateReq(Guild, Player, "demon", DistA, None, None)}

LedgerNpcCreateRequests ==
    {NpcCreateReq(Guild, GM, TRUE, "Bob", "witch", DistB, None, "stealth")}

BonusAddRequests ==
    {BonusAddReq(Guild, Player, "combat", 2),
     BonusAddReq(Guild, Player, "combat", -3),
     BonusAddReq(Guild, Player, "stealth", 2),
     BonusAddReq(Guild, GM, "combat", 2),
     BonusAddReq(NoGuild, Player, "combat", 2)}

BonusRemoveRequests ==
    {BonusRemoveReq(Guild, u, i) : u \in {Player, GM}, i \in 1..MaxBonusId}

LedgerCreate ==
    \E r \in LedgerCreateRequests :
        \E out \in {create(DB, r.gid, r.uid, r.lineage, r.slots,
                           r.human_bonus_skill, r.witch_bonus_skill)} :
            Handle(r, out)

LedgerNpcCreate ==
    \E r \in LedgerNpcCreateRequests :
        \E out \in {npc_create(DB, r.gid, r.uid, r.perm, r.name, r.lineage,
                               r.slots, r.human_bonus_skill, r.witch_bonus_skill)} :
            Handle(r, out)

BonusAdd ==
    /\ bonus_seq < MaxBonusId
    /\ \E r \in BonusAddRequests :
          \E out \in {bonus_add(DB, r.gid, r.uid, r.skill, r.amount)} :
              Handle(r, out)

BonusRemove ==
    \E r \in BonusRemoveRequests :
        \E out \in {bonus_remove(DB, r.gid, r.uid, r.bonus_id)} : Handle(r, out)

NextLedger == LedgerCreate \/ LedgerNpcCreate \/ BonusAdd \/ BonusRemove

SpecLedger == Init /\ [][NextLedger]_vars

-----------------------------------------------------------------------------
(* One check, /roll or !r, on a database that earlier commands left *)

\* A demon's sheet with a bonus of -4 on combat.
Cursed ==
    bonus_add(create(EmptyDB, Guild, Player, "demon", DistA, None, None).db,
              Guild, Player, "combat", -4).db

\* The same beside the game master's NPC Bob.
WithBob ==
    npc_create(Cursed, Guild, GM, TRUE, "Bob", "witch", DistB, None, "stealth").db

RollDBs == {EmptyDB, Cursed, WithBob}

InitRoll ==
    /\ \E d \in RollDBs :
          /\ players = d.players
          /\ skills = d.skills
          /\ bonuses = d.bonuses
          /\ bonus_seq = d.bonus_seq
          /\ inventory = d.inventory
          /\ weaknesses = d.weaknesses
          /\ weakness_seq = d.weakness_seq
          /\ ability_usage = d.ability_usage
          /\ npc_chars = d.npc_chars
          /\ npc_seq = d.npc_seq
          /\ npc_skills = d.npc_skills
          /\ npc_bonuses = d.npc_bonuses
    /\ req = NoRequest
    /\ resp = Msg("")
    /\ rolled = <<>>
    /\ tasks = <<>>

RollReq(gid, uid, skill, advantage, disadvantage, dc, bonus, as_name) ==
    [cmd |-> "roll", gid |-> gid, uid |-> uid, skill |-> skill,
     advantage |-> advantage, disadvantage |-> disadvantage, dc |-> dc,
     bonus |-> bonus, as_name |-> as_name]

RReq(gid, uid, text) == [cmd |-> "r", gid |-> gid, uid |-> uid, text |-> text]

RollRequests ==
    {RollReq(Guild, w[1], w[2], a, b, dc, bonus, w[3]) :
        w \in { <<Player, "combat", None>>, <<GM, "stealth", "Bob">>,
                 <<Player, "stealth", "Bob">> },
        a \in BOOLEAN, b \in BOOLEAN,
        dc \in {<<>>, <<1>>, <<15>>, <<100>>}, bonus \in {0, -3}}
    \cup {RollReq(NoGuild, Player, "combat", FALSE, FALSE, <<15>>, 0, None)}

RRequests ==
    {RReq(Guild, Player, t) :
        t \in {"1d20 combat vs 15", "1d20 adv vs 15", "1D20 com dis vs 25 quietly",
               "d20 vs 100", "2d10 vs 25", "20d1 vs 25", "60d1 dc 40",
               "2d6 adv stealth vs 9", "1d20 adv dis vs 15",
               "1d20 combat DIS vs 15 Adv", "stealth", "", "0d20 combat",
               "1dx vs 15", "1d20 vs 15 as Bob"}}
    \cup {RReq(Guild, GM, "1d20 stealth Advantage dc 1 as Bob"),
          RReq(NoGuild, Player, "1d20 combat vs 15")}

\* A check is the one command of a run.
Roll ==
    /\ req = NoRequest
    /\ \E r \in RollRequests :
          \E d1 \in 1..20, d2 \in 1..20 :
              \E out \in {roll(DB, r.gid, r.uid, r.skill, r.advantage,
                               r.disadvantage, r.dc, r.bonus, r.as_name, d1, d2)} :
                  Handle(r, out)

RPrefix ==
    /\ req = NoRequest
    /\ \E r \in RRequests :
          \E rng \in Streams(draws(r_parse(r.text))) :
              \E out \in {r_prefix(DB, r.gid, r.uid, r.text, rng)} :
                  Handle(r, out)

NextRoll == Roll \/ RPrefix

SpecRoll == InitRoll /\ [][NextRoll]_vars

-----------------------------------------------------------------------------
(* Abilities: /orbing, /healing and /rest beside the /create and           *)
(* /npc_create of the resource pools, and damage by /hp and /rv           *)

OrbingReq(gid, uid) == [cmd |-> "orbing", gid |-> gid, uid |-> uid]

HealingReq(gid, uid, target, resource) ==
    [cmd |-> "healing", gid |-> gid, uid |-> uid, target |-> target,
     resource |-> resource]

RestReq(gid, uid, scope, long_rest) ==
    [cmd |-> "rest", gid |-> gid, uid |-> uid, scope |-> scope,
     long_rest |-> long_rest]

AbilityAdjustRequests ==
    {AdjustReq("hp", Guild, Player, FALSE, None, 4),
     AdjustReq("rv", Guild, Player, FALSE, None, 3)}

OrbingRequests ==
    {OrbingReq(Guild, Player), OrbingReq(Guild, GM), OrbingReq(NoGuild, Player)}

HealingRequests ==
    {HealingReq(Guild, Player, t, r) : t \in {Player, GM}, r \in {"hp", "rv"}}
    \cup {HealingReq(Guild, GM, Player, "hp"), HealingReq(NoGuild, Player, Player, "hp")}

RestRequests ==
    {RestReq(Guild, Player, s, l) : s \in {"scene", "rest"}, l \in BOOLEAN}
    \cup {RestReq(Guild, GM, s, TRUE) : s \in {"scene", "rest"}}
    \cup {RestReq(NoGuild, Player, "scene", FALSE)}

AbilityAdjust ==
    \E r \in AbilityAdjustRequests :
        \E out \in {IF r.cmd = "hp" THEN hp(DB, r.gid, r.uid, r.amount)
                    ELSE rv(DB, r.gid, r.uid, r.amount)} :
            Handle(r, out)

Orbing ==
    \E r \in OrbingRequests :
        \E out \in {orbing(DB, r.gid, r.uid)} : Handle(r, out)

Healing ==
    \E r \in HealingRequests :
        \E out \in {healing(DB, r.gid, r.uid, r.target, r.resource)} : Handle(r, out)

Rest ==
    \E r \in RestRequests :
        \E out \in {rest(DB, r.gid, r.uid, r.scope, r.long_rest)} : Handle(r, out)

NextAbilities ==
    PoolCreate \/ PoolNpcCreate \/ AbilityAdjust \/ Orbing \/ Healing \/ Rest

SpecAbilities == Init /\ [][NextAbilities]_vars

\* The same commands when the last statement of a /healing can fail.
HealingInterrupted ==
    \E r \in HealingRequests :
        \E out \in {healing_interrupted(DB, r.gid, r.uid, r.target, r.resource)} :
            Handle(r, out)

NextFaults ==
    \/ PoolCreate \/ PoolNpcCreate \/ AbilityAdjust \/ Orbing \/ Healing \/ Rest
    \/ HealingInterrupted

SpecFaults == Init /\ [][NextFaults]_vars

-----------------------------------------------------------------------------
(* Favors: /favor beside /create in two servers, /npc_create, /orbing    *)
(* and /healing                                                            *)

\* A second server.
OtherGuild == 2

FavorReq(gid, uid, perm, spend, reset) ==
    [cmd |-> "favor", gid |-> gid, uid |-> uid, perm |-> perm, spend |-> spend,
     reset |-> reset]

FavorCreateRequests ==
    PoolCreateRequests
    \cup {CreateReq(OtherGuild, Player, "demon", DistA, None, None)}

FavorRequests ==
    {FavorReq(g, Player, FALSE, sp, FALSE) : g \in {Guild, OtherGuild}, sp \in BOOLEAN}
    \cup {FavorReq(Guild, GM, TRUE, sp, TRUE) : sp \in BOOLEAN}
    \cup {FavorReq(Guild, GM, TRUE, TRUE, FALSE),
          FavorReq(Guild, Player, FALSE, FALSE, TRUE),
          FavorReq(NoGuild, Player, FALSE, TRUE, FALSE)}

FavorCreate ==
    \E r \in FavorCreateRequests :
        \E out \in {create(DB, r.gid, r.uid, r.lineage, r.slots,
                           r.human_bonus_skill, r.witch_bonus_skill)} :
            Handle(r, out)

Favor ==
    \E r \in FavorRequests :
        \E out \in {favor(DB, r.gid, r.uid, r.perm, r.spend, r.reset)} :
            Handle(r, out)

NextFavors == FavorCreate \/ PoolNpcCreate \/ Favor \/ Orbing \/ Healing

SpecFavors == Init /\ [][NextFavors]_vars

-----------------------------------------------------------------------------
(* Sheets: /weakness_add, /weakness_remove, /inv_add and /bonus_add       *)
(* beside creations and re-creations of a PC and of an NPC                 *)

\* The model stops adding weaknesses at this id, and items at this quantity.
MaxWeaknessId == 3

MaxQty == 2

WeaknessAddReq(gid, uid, text) ==
    [cmd |-> "weakness_add", gid |-> gid, uid |-> uid, text |-> text]

WeaknessRemoveReq(gid, uid, weakness_id) ==
    [cmd |-> "weakness_remove", gid |-> gid, uid |-> uid,
     weakness_id |-> weakness_id]

InvAddReq(gid, uid, item, qty) ==
    [cmd |-> "inv_add", gid |-> gid, uid |-> uid, item |-> item, qty |-> qty]

SheetCreateRequests ==
    {CreateReq(Guild, Player, "demon", s, None, None) : s \in {DistA, DistB}}

WeaknessAddRequests ==
    {WeaknessAddReq(Guild, Player, "Afraid of fire"),
     WeaknessAddReq(Guild, GM, "Proud"),
     WeaknessAddReq(NoGuild, Player, "Afraid of fire")}

WeaknessRemoveRequests ==
    {WeaknessRemoveReq(Guild, Player, i) : i \in 1..MaxWeaknessId}
    \cup {WeaknessRemoveReq(NoGuild, Player, 1)}

InvAddRequests ==
    {InvAddReq(Guild, Player, "rope", 1), InvAddReq(NoGuild, Player, "rope", 1)}

SheetCreate ==
    \E r \in SheetCreateRequests :
        \E out \in {create(DB, r.gid, r.uid, r.lineage, r.slots,
                           r.human_bonus_skill, r.witch_bonus_skill)} :
            Handle(r, out)

WeaknessAdd ==
    /\ weakness_seq < MaxWeaknessId
    /\ \E r \in WeaknessAddRequests :
          \E out \in {weakness_add(DB, r.gid, r.uid, r.text)} : Handle(r, out)

WeaknessRemove ==
    \E r \in WeaknessRemoveRequests :
        \E out \in {weakness_remove(DB, r.gid, r.uid, r.weakness_id)} :
            Handle(r, out)

InvAdd ==
    /\ \A k \in DOMAIN inventory : inventory[k] < MaxQty
    /\ \E r \in InvAddRequests :
          \E out \in {inv_add(DB, r.gid, r.uid, r.item, r.qty)} : Handle(r, out)

\* Weaknesses added and removed in every order.
NextWeakness == SheetCreate \/ WeaknessAdd \/ WeaknessRemove

SpecWeakness == Init /\ [][NextWeakness]_vars

\* Creations and re-creations of sheets that hold a bonus, weaknesses and
\* items; one bonus is enough for them.
SheetBonusAdd == bonus_seq < 1 /\ BonusAdd

NextSheet ==
    \/ SheetCreate \/ PoolNpcCreate \/ LedgerNpcCreate \/ SheetBonusAdd
    \/ WeaknessAdd \/ InvAdd

SpecSheet == Init /\ [][NextSheet]_vars

-----------------------------------------------------------------------------
(* Two handlers in flight at once on the sheet of one player                *)

\* A whitelighter's sheet after damage: hp 4/10, rv 5/7, favors 1, orbing
\* and healing not used.
Hurt ==
    rv(hp(create(EmptyDB, Guild, Player, "whitelighter", DistA, None, None).db,
          Guild, Player, 6).db,
       Guild, Player, 2).db

Recreation == CreateReq(Guild, Player, "demon", DistB, None, None)

\* The pairs of commands that the player's client sends at once.
Races ==
    {<<OrbingReq(Guild, Player), OrbingReq(Guild, Player)>>,
     <<HealingReq(Guild, Player, Player, "hp"), HealingReq(Guild, Player, Player, "hp")>>,
     <<HealingReq(Guild, Player, Player, "rv"), HealingReq(Guild, Player, Player, "rv")>>,
     <<FavorReq(Guild, Player, FALSE, TRUE, FALSE), FavorReq(Guild, Player, FALSE, TRUE, FALSE)>>,
     <<AdjustReq("hp", Guild, Player, FALSE, None, 3),
       AdjustReq("hp", Guild, Player, FALSE, None, -2)>>,
     <<AdjustReq("rv", Guild, Player, FALSE, None, 1),
       AdjustReq("rv", Guild, Player, FALSE, None, -1)>>,
     <<Recreation, AdjustReq("rv", Guild, Player, FALSE, None, -2)>>,
     <<Recreation, AdjustReq("rv", Guild, Player, FALSE, None, 1)>>,
     <<Recreation, RestReq(Guild, Player, "rest", TRUE)>>,
     <<Recreation, OrbingReq(Guild, Player)>>,
     <<Recreation, HealingReq(Guild, Player, Player, "hp")>>,
     <<RestReq(Guild, Player, "scene", FALSE), OrbingReq(Guild, Player)>>}

InitTasks ==
    /\ players = Hurt.players
    /\ skills = Hurt.skills
    /\ bonuses = Hurt.bonuses
    /\ bonus_seq = Hurt.bonus_seq
    /\ inventory = Hurt.inventory
    /\ weaknesses = Hurt.weaknesses
    /\ weakness_seq = Hurt.weakness_seq
    /\ ability_usage = Hurt.ability_usage
    /\ npc_chars = Hurt.npc_chars
    /\ npc_seq = Hurt.npc_seq
    /\ npc_skills = Hurt.npc_skills
    /\ npc_bonuses = Hurt.npc_bonuses
    /\ req = NoRequest
    /\ resp = Msg("")
    /\ rolled = <<>>
    /\ \E race \in Races : tasks = <<Task(race[1]), Task(race[2])>>

\* The tasks of a command that have not returned.
Running(cmd) == {i \in DOMAIN tasks : tasks[i].req.cmd = cmd /\ tasks[i].pc # 0}

\* Task i runs up to its next await: one statement, committed.
Run(i, out) ==
    /\ Commit(out.db)
    /\ tasks' = [tasks EXCEPT ![i] = out.task]
    /\ UNCHANGED <<req, resp, rolled>>

CreateStep ==
    \E i \in Running("create") : \E out \in {create_step(DB, tasks[i])} : Run(i, out)

HpStep ==
    \E i \in Running("hp") : \E out \in {hp_step(DB, tasks[i])} : Run(i, out)

RvStep ==
    \E i \in Running("rv") : \E out \in {rv_step(DB, tasks[i])} : Run(i, out)

FavorStep ==
    \E i \in Running("favor") : \E out \in {favor_step(DB, tasks[i])} : Run(i, out)

OrbingStep ==
    \E i \in Running("orbing") : \E out \in {orbing_step(DB, tasks[i])} : Run(i, out)

HealingStep ==
    \E i \in Running("healing") : \E out \in {healing_step(DB, tasks[i])} : Run(i, out)

RestStep ==
    \E i \in Running("rest") : \E out \in {rest_step(DB, tasks[i])} : Run(i, out)

NextTasks ==
    \/ CreateStep \/ HpStep \/ RvStep \/ FavorStep
    \/ OrbingStep \/ HealingStep \/ RestStep

SpecTasks == InitTasks /\ [][NextTasks]_vars

-----------------------------------------------------------------------------
(* Properties of the resource pools *)

IsAdjust(r) == r.cmd \in {"hp", "rv", "npc_hp", "npc_rv"}

PoolsInRange(pl, np) ==
    /\ \A k \in DOMAIN pl :
          /\ 0 <= pl[k].hp /\ pl[k].hp <= pl[k].max_hp
          /\ 0 <= pl[k].rv /\ pl[k].rv <= pl[k].max_rv
    /\ \A i \in DOMAIN np :
          /\ 0 <= np[i].hp /\ np[i].hp <= np[i].max_hp
          /\ 0 <= np[i].rv /\ np[i].rv <= np[i].max_rv

MaxOf(pl, np) ==
    <<[k \in DOMAIN pl |-> <<pl[k].max_hp, pl[k].max_rv>>],
      [i \in DOMAIN np |-> <<np[i].max_hp, np[i].max_rv>>]>>

\* C2: every adjust (hp, rv, npc_hp, npc_rv), whatever its amount, leaves
\* 0 <= current <= max for every pool of every actor and changes no max.
C2_AdjustKeepsPoolsInRange ==
    [][IsAdjust(req') =>
          /\ PoolsInRange(players', npc_chars')
          /\ MaxOf(players', npc_chars') = MaxOf(players, npc_chars)]_vars

\* C2 witness: a damage larger than what was left took a PC's hp to 0, while
\* its resolve sits strictly between 0 and a max of 7.
C2_Witness ==
    /\ req.cmd = "hp" /\ req.amount = 15 /\ resp.text = "HP now"
    /\ players[<<Guild, Player>>].hp = 0
    /\ players[<<Guild, Player>>].rv = 4
    /\ players[<<Guild, Player>>].max_rv = 7

\* The pool an adjust request r is about, read from the tables pl and np;
\* the NPC is looked up in the state the request arrives in.
PoolCur(r, pl, np) ==
    CASE r.cmd = "hp" -> pl[<<r.gid, r.uid>>].hp
      [] r.cmd = "rv" -> pl[<<r.gid, r.uid>>].rv
      [] r.cmd = "npc_hp" -> np[npc_get(DB, r.gid, r.uid, r.name)].hp
      [] r.cmd = "npc_rv" -> np[npc_get(DB, r.gid, r.uid, r.name)].rv

PoolMax(r, pl, np) ==
    CASE r.cmd = "hp" -> pl[<<r.gid, r.uid>>].max_hp
      [] r.cmd = "rv" -> pl[<<r.gid, r.uid>>].max_rv
      [] r.cmd = "npc_hp" -> np[npc_get(DB, r.gid, r.uid, r.name)].max_hp
      [] r.cmd = "npc_rv" -> np[npc_get(DB, r.gid, r.uid, r.name)].max_rv

\* The adjust request r names an actor that exists, and may be made.
AdjustApplies(r) ==
    /\ IsAdjust(r) /\ r.gid # NoGuild
    /\ r.cmd \in {"hp", "rv"} => <<r.gid, r.uid>> \in DOMAIN players
    /\ r.cmd \in {"npc_hp", "npc_rv"} =>
          r.perm /\ npc_get(DB, r.gid, r.uid, r.name) # 0

Absolute(n) == IF n < 0 THEN -n ELSE n

Within(n, mx) == IF n < 0 THEN 0 ELSE IF n > mx THEN mx ELSE n

\* C3: adjust(pool, amount) sets the current value to clamp(current - amount,
\* 0, max) when amount > 0, to clamp(current + |amount|, 0, max) when
\* amount < 0, leaves it as it is when amount = 0, and replies with the new
\* value, never with an error.
C3_AdjustSetsClampedValue ==
    [][AdjustApplies(req') =>
          LET cur == PoolCur(req', players, npc_chars)
              mx == PoolMax(req', players, npc_chars)
              new == PoolCur(req', players', npc_chars')
              a == req'.amount
          IN /\ a > 0 => new = Within(cur - a, mx)
             /\ a < 0 => new = Within(cur + Absolute(a), mx)
             /\ a = 0 => new = cur
             /\ resp'.text \in {"HP now", "RV now"}
             /\ resp'.value = new /\ resp'.max = mx]_vars

\* C3 witness: a heal of 15 on an NPC that had lost hp was absorbed at the
\* max of 10.
C3_Witness ==
    /\ req.cmd = "npc_hp" /\ req.amount = -15 /\ resp.text = "HP now"
    /\ resp.value = 10
    /\ \E i \in DOMAIN npc_chars : npc_chars[i].hp = 10 /\ npc_chars[i].rv = 1

-----------------------------------------------------------------------------
(* Properties of the skill totals *)

RECURSIVE SumOf(_, _)
\* The arithmetic sum of f over the set S.
SumOf(f, S) ==
    IF S = {} THEN 0
    ELSE LET x == CHOOSE y \in S : TRUE IN f[x] + SumOf(f, S \ {x})

\* The bonus entries of PC <<gid, uid>> for skill s, and of NPC id for s.
EntriesOfPc(gid, uid, s) ==
    {i \in DOMAIN bonuses :
        bonuses[i].guild_id = gid /\ bonuses[i].user_id = uid /\ bonuses[i].skill = s}

EntriesOfNpc(id, s) ==
    {i \in DOMAIN npc_bonuses :
        npc_bonuses[i].npc_id = id /\ npc_bonuses[i].skill = s}

\* C1: for every actor, PC or NPC, and every catalog skill the skill-total
\* read returns (base, bonusSum, base + bonusSum), bonusSum being the sum of
\* the amounts of all bonus entries of that actor for that skill, negative
\* ones included and 0 when there is none, after any sequence of bonus
\* additions and removals.
C1_SkillTotalIsBasePlusBonusSum ==
    \A i \in 1..Len(SKILLS) :
        LET s == SKILLS[i]
        IN /\ \A u \in {Player, GM} :
                 LET base == IF <<Guild, u, s>> \in DOMAIN skills
                             THEN skills[<<Guild, u, s>>] ELSE 0
                     bonusSum == SumOf([e \in DOMAIN bonuses |-> bonuses[e].bonus],
                                       EntriesOfPc(Guild, u, s))
                 IN get_skill_total_pc(DB, Guild, u, s)
                        = <<base, bonusSum, base + bonusSum>>
           /\ \A id \in DOMAIN npc_chars :
                 LET base == IF <<id, s>> \in DOMAIN npc_skills
                             THEN npc_skills[<<id, s>>] ELSE 0
                     bonusSum == SumOf([e \in DOMAIN npc_bonuses |-> npc_bonuses[e].bonus],
                                       EntriesOfNpc(id, s))
                 IN npc_skill_total(DB, id, s) = <<base, bonusSum, base + bonusSum>>

\* C1 witness: after a removal the demon still has a bonus of +2 and one of
\* -3 on combat, read as (3, -1, 2), while the NPC Bob reads (5, 0, 5) on
\* stealth.
C1_Witness ==
    /\ req.cmd = "bonus_remove"
    /\ Cardinality(EntriesOfPc(Guild, Player, "combat")) = 2
    /\ bonus_seq = 3
    /\ get_skill_total_pc(DB, Guild, Player, "combat") = <<3, -1, 2>>
    /\ \E id \in DOMAIN npc_chars : npc_skill_total(DB, id, "stealth") = <<5, 0, 5>>

-----------------------------------------------------------------------------
(* Properties of a check *)

IsCheck(r) == r.cmd \in {"roll", "r"}

\* The texts of !r that ask for advantage, for disadvantage, and for both.
AdvTexts == {"1d20 adv vs 15", "1d20 stealth Advantage dc 1 as Bob"}

DisTexts == {"1D20 com dis vs 25 quietly"}

BothTexts == {"1d20 adv dis vs 15", "1d20 combat DIS vs 15 Adv"}

WithAdvantage(r) == IF r.cmd = "roll" THEN r.advantage ELSE r.text \in AdvTexts

WithDisadvantage(r) == IF r.cmd = "roll" THEN r.disadvantage ELSE r.text \in DisTexts

WithBoth(r) ==
    IF r.cmd = "roll" THEN r.advantage /\ r.disadvantage ELSE r.text \in BothTexts

Greater(a, b) == IF a > b THEN a ELSE b

Lesser(a, b) == IF a < b THEN a ELSE b

\* The die that counts of a check of one d20, request r having drawn dice.
ChosenDie(r, dice) ==
    IF WithAdvantage(r) THEN Greater(dice[1], dice[2])
    ELSE IF WithDisadvantage(r) THEN Lesser(dice[1], dice[2])
    ELSE dice[1]

\* The last command was a check of one d20 against a difficulty.
SingleCheckVsDifficulty ==
    IsCheck(req) /\ resp.text = "rolls" /\ resp.single /\ resp.dc # <<>>

\* C4: in a check of one d20 against a difficulty, a chosen d20 of 20 gives
\* Success/Automatic, whatever the difficulty, the skill total and the
\* situational bonus, also when total < difficulty and under advantage or
\* disadvantage.
C4_Natural20IsAutomaticSuccess ==
    (SingleCheckVsDifficulty /\ ChosenDie(req, rolled) = 20)
        => resp.outcome = "Nat 20 (Automatic)"

\* C4 witness: under disadvantage both dice were 20, and the total of 16
\* stayed below the difficulty of 100.
C4_Witness ==
    /\ req.cmd = "roll" /\ req.disadvantage /\ req.dc = <<100>>
    /\ rolled = <<20, 20>> /\ resp.total = 16
    /\ resp.outcome = "Nat 20 (Automatic)"

\* C5: in a check of one d20 against a difficulty, a chosen d20 of 1 gives
\* Failure/Complication, whatever the skill total, the situational bonus
\* and the difficulty, also when total >= difficulty.
C5_Natural1IsComplication ==
    (SingleCheckVsDifficulty /\ ChosenDie(req, rolled) = 1)
        => resp.outcome = "Nat 1 (Complication)"

\* C5 witness: Bob rolled 1 and 1 with advantage in !r; his total of 6 met
\* the difficulty of 1.
C5_Witness ==
    /\ req.cmd = "r" /\ req.text = "1d20 stealth Advantage dc 1 as Bob"
    /\ rolled = <<1, 1>> /\ resp.total = 6 /\ resp.dc = <<1>>
    /\ resp.outcome = "Nat 1 (Complication)"

\* C6: in /roll and in !r with any dice expression, when no natural 1 or
\* natural 20 of a chosen d20 overrides, the outcome against a difficulty is
\* Success exactly when total >= difficulty, and Failure otherwise.
C6_SuccessIffTotalMeetsDifficulty ==
    (/\ IsCheck(req) /\ resp.text = "rolls" /\ resp.dc # <<>>
     /\ ~(resp.single /\ ChosenDie(req, rolled) \in {1, 20}))
        => /\ resp.total >= resp.dc[1] => resp.outcome = "Success"
           /\ resp.total < resp.dc[1] => resp.outcome = "Failure"

\* C6 divergence: !r 2d10 vs 25 drew 10 and 10; the total of 20 is below the
\* difficulty of 25 and the reply says Success.
C6_Witness ==
    /\ req.cmd = "r" /\ req.text = "2d10 vs 25" /\ rolled = <<10, 10>>
    /\ resp.total = 20 /\ resp.dc = <<25>> /\ resp.outcome = "Success"

\* C7: for every pair of dice (d1, d2) in 1..20 x 1..20 the chosen die is
\* max(d1, d2) with advantage, min(d1, d2) with disadvantage and d1 with
\* neither.
C7_ChosenDie ==
    (IsCheck(req) /\ resp.text = "rolls" /\ resp.single)
        => /\ \A i \in 1..Len(rolled) : rolled[i] \in 1..20
           /\ (req.cmd = "roll" \/ WithAdvantage(req) \/ WithDisadvantage(req))
                 => Len(rolled) = 2
           /\ resp.dice = ChosenDie(req, rolled)

\* C7 witness: with advantage 7 and 15 gave 15.
C7_Witness ==
    /\ req.cmd = "roll" /\ req.advantage /\ rolled = <<7, 15>>
    /\ resp.text = "rolls" /\ resp.dice = 15

\* C8: a check asked with advantage and disadvantage both is rejected
\* before any die is rolled and before any actor record is looked up,
\* created or changed: no die is drawn and every table stays as it was.
C8_BothModifiersRejected ==
    [][(IsCheck(req') /\ WithBoth(req'))
          => /\ resp' = Msg("Can't have both advantage and disadvantage.")
             /\ rolled' = <<>>
             /\ UNCHANGED tables]_vars

\* C8 witness: !r with adv and dis was refused for a user that has no sheet,
\* and no sheet was made for them.
C8_Witness ==
    /\ req.cmd = "r" /\ req.text = "1d20 combat DIS vs 15 Adv"
    /\ resp.text = "Can't have both advantage and disadvantage."
    /\ rolled = <<>>
    /\ players = EmptyTable /\ skills = EmptyTable

-----------------------------------------------------------------------------
(* Properties of creation *)

IsCreation(r) == r.cmd \in {"create", "npc_create"}

Created(r, m) ==
    \/ r.cmd = "create" /\ m.text = "created"
    \/ r.cmd = "npc_create" /\ m.text = "NPC saved"

\* A distribution names exactly 5 distinct skills.
FiveDistinct(slots) ==
    /\ \A i \in 1..5 : slots[i] \in SkillSet
    /\ \A i, j \in 1..5 : i # j => slots[i] # slots[j]

\* The points the actor of creation request r has in skill s; -1 when the
\* actor has no entry for s.
PointsOf(r, s) ==
    IF r.cmd = "create"
    THEN IF <<r.gid, r.uid, s>> \in DOMAIN skills
         THEN skills[<<r.gid, r.uid, s>>] ELSE -1
    ELSE LET id == npc_get(DB, r.gid, r.uid, r.name)
         IN IF <<id, s>> \in DOMAIN npc_skills THEN npc_skills[<<id, s>>] ELSE -1

\* The row of the actor of creation request r: of players for create, of
\* npc_chars for npc_create.
ActorOf(r) ==
    IF r.cmd = "create" THEN players[<<r.gid, r.uid>>]
    ELSE npc_chars[npc_get(DB, r.gid, r.uid, r.name)]

\* C11: right after a successful creation of any actor, PC or NPC, with
\* lineage demon the actor has hp = max_hp = 10, rv = max_rv = 5, favors = 1
\* and connections = 0, whatever its resources were before.
C11_DemonStartingResources ==
    (Created(req, resp) /\ req.lineage = "demon") =>
        /\ ActorOf(req).hp = 10 /\ ActorOf(req).max_hp = 10
        /\ ActorOf(req).rv = 5 /\ ActorOf(req).max_rv = 5
        /\ ActorOf(req).favors = 1
        /\ ActorOf(req).connections = 0

\* C11 divergence: /npc_create made the demon Bob, who has no favor.
C11_Witness ==
    /\ Created(req, resp) /\ req.cmd = "npc_create" /\ req.lineage = "demon"
    /\ ActorOf(req).hp = 10 /\ ActorOf(req).rv = 5
    /\ ActorOf(req).favors = 0

\* C12: after a successful creation with lineage whitelighter rv = max_rv = 7,
\* also when the actor was a whitelighter before and is created again, any
\* number of times: the +2 does not add up over re-creations.
C12_WhitelighterResolveIsSeven ==
    (Created(req, resp) /\ req.lineage = "whitelighter") =>
        ActorOf(req).rv = 7 /\ ActorOf(req).max_rv = 7

\* C12 witness: the NPC Bob was created a whitelighter while the player's
\* whitelighter, created earlier, has spent resolve.
C12_Witness ==
    /\ Created(req, resp) /\ req.cmd = "npc_create" /\ req.lineage = "whitelighter"
    /\ ActorOf(req).rv = 7 /\ ActorOf(req).max_rv = 7
    /\ <<Guild, Player>> \in DOMAIN players
    /\ players[<<Guild, Player>>].lineage = "whitelighter"
    /\ players[<<Guild, Player>>].rv = 4 /\ players[<<Guild, Player>>].max_rv = 7

\* C9: a creation (create, npc_create) whose distribution does not name
\* exactly 5 distinct skills is rejected, and the step changes no table: no
\* record is created and every stored value keeps its prior value.
C9_InvalidDistributionChangesNothing ==
    [][(IsCreation(req') /\ ~FiveDistinct(req'.slots))
          => (~Created(req', resp') /\ UNCHANGED tables)]_vars

\* C9 witness: a duplicate distribution was refused for a player who has a
\* whitelighter sheet with advanced skills and ability entries.
C9_Witness ==
    /\ req.cmd = "create" /\ req.slots = DistDup /\ resp.text = PickFive
    /\ <<Guild, Player>> \in DOMAIN players
    /\ players[<<Guild, Player>>].lineage = "whitelighter"
    /\ <<Guild, Player, "healing">> \in DOMAIN ability_usage
    /\ skills[<<Guild, Player, "combat">>] = 5
    /\ npc_chars # EmptyTable

\* C10: after a successful creation with lineage demon the +3 skill has 3
\* points, the two +2 skills 2, the two +1 skills 1, each of the other five
\* catalog skills 0, and all ten catalog skills are present.
C10_DemonDistribution ==
    (Created(req, resp) /\ req.lineage = "demon") =>
        /\ PointsOf(req, req.slots[1]) = 3
        /\ PointsOf(req, req.slots[2]) = 2
        /\ PointsOf(req, req.slots[3]) = 2
        /\ PointsOf(req, req.slots[4]) = 1
        /\ PointsOf(req, req.slots[5]) = 1
        /\ \A s \in SkillSet \ SeqSet(req.slots) : PointsOf(req, s) = 0

\* C10 witness: a demon was created over DistB; combat, the +3 skill of
\* DistA and the skill that /gm_skill advances, is back at 0.
C10_Witness ==
    /\ Created(req, resp) /\ req.cmd = "create" /\ req.lineage = "demon"
    /\ req.slots = DistB
    /\ skills[<<Guild, Player, "combat">>] = 0
    /\ skills[<<Guild, Player, "stealth">>] = 3

\* The points that the plain distribution gives skill s: 3 for the first
\* slot, 2 for the next two, 1 for the last two, 0 for a skill not named.
PlainPoints(slots, s) ==
    IF s = slots[1] THEN 3
    ELSE IF s \in {slots[2], slots[3]} THEN 2
    ELSE IF s \in {slots[4], slots[5]} THEN 1
    ELSE 0

\* The points after a lineage bonus of n on skill b, which counts only when
\* b is one of the five distributed skills.
WithBonus(slots, s, b, n) ==
    IF s = b /\ b \in SeqSet(slots)
    THEN (IF PlainPoints(slots, s) + n > 5 THEN 5 ELSE PlainPoints(slots, s) + n)
    ELSE PlainPoints(slots, s)

\* C14: after a successful creation with lineage human, connections = 3; a
\* bonus skill that is one of the 5 distributed skills has min(slot value
\* + 1, 5) points and every other skill its slot value or 0; with the bonus
\* skill absent or not among the 5 no skill differs from the plain
\* distribution.
C14_HumanBonus ==
    (Created(req, resp) /\ req.lineage = "human") =>
        /\ ActorOf(req).connections = 3
        /\ \A s \in SkillSet :
              PointsOf(req, s) = WithBonus(req.slots, s, req.human_bonus_skill, 1)

\* C14 witness: the human of the example, stealth 3 (2 + 1) over DistA, made
\* over an older sheet.
C14_Witness ==
    /\ Created(req, resp) /\ req.cmd = "create" /\ req.lineage = "human"
    /\ req.slots = DistA /\ req.human_bonus_skill = "stealth"
    /\ skills[<<Guild, Player, "combat">>] = 3
    /\ skills[<<Guild, Player, "stealth">>] = 3
    /\ skills[<<Guild, Player, "willpower">>] = 0
    /\ players[<<Guild, Player>>].connections = 3
    /\ npc_chars # EmptyTable

\* C15: after a successful creation with lineage witch a bonus skill that is
\* one of the 5 distributed skills has min(slot value + 2, 5) points; with
\* the bonus skill absent or not among the 5 no skill differs from the plain
\* distribution; connections are 0 and resolve is 5 of 5.
C15_WitchBonus ==
    (Created(req, resp) /\ req.lineage = "witch") =>
        /\ ActorOf(req).connections = 0
        /\ ActorOf(req).rv = 5 /\ ActorOf(req).max_rv = 5
        /\ \A s \in SkillSet :
              PointsOf(req, s) = WithBonus(req.slots, s, req.witch_bonus_skill, 2)

\* C15 witness: the witch NPC Bob has 5 points in stealth, the +3 skill of
\* DistB and his bonus skill.
C15_Witness ==
    /\ Created(req, resp) /\ req.cmd = "npc_create" /\ req.lineage = "witch"
    /\ req.slots = DistB /\ req.witch_bonus_skill = "stealth"
    /\ PointsOf(req, "stealth") = 5
    /\ PointsOf(req, "willpower") = 2

\* C16: in every state that creations, re-creations (any lineage, any bonus
\* skill) and advancements by any signed amount reach, every skill of every
\* actor, PC or NPC, has between 0 and 5 base points.
C16_SkillPointsInRange ==
    /\ \A k \in DOMAIN skills : skills[k] \in 0..5
    /\ \A k \in DOMAIN npc_skills : npc_skills[k] \in 0..5

\* C16 witness: an advancement by 7 stopped at 5.
C16_Witness ==
    /\ req.cmd = "gm_skill" /\ req.amount = 7
    /\ resp.text = "is now" /\ resp.value = 5
    /\ skills[<<Guild, Player, "combat">>] = 5
    /\ players[<<Guild, Player>>].lineage = "witch"

\* C17: an advancement of a catalog skill that the front end let through
\* (in a server, by a game master) always succeeds and sets that skill to
\* current + amount held within 0..5, current being 0 for a skill without an
\* entry; every other skill entry, the bonuses and the sheet the member has
\* are unchanged, and so is every other table.
C17_AdvanceSetsClampedPoints ==
    [][(req'.cmd = "gm_skill" /\ req'.gid # NoGuild /\ req'.perm = TRUE
            /\ req'.skill \in SkillSet) =>
          LET k == <<req'.gid, req'.member, req'.skill>>
              cur == IF k \in DOMAIN skills THEN skills[k] ELSE 0
          IN /\ resp'.text = "is now"
             /\ resp'.value = Within(cur + req'.amount, 5)
             /\ k \in DOMAIN skills' /\ skills'[k] = Within(cur + req'.amount, 5)
             /\ \A x \in DOMAIN skills \ {k} :
                   x \in DOMAIN skills' /\ skills'[x] = skills[x]
             /\ <<req'.gid, req'.member>> \in DOMAIN players => players' = players
             /\ UNCHANGED <<bonuses, bonus_seq, inventory, weaknesses, weakness_seq,
                            ability_usage, npc_chars, npc_seq, npc_skills,
                            npc_bonuses>>]_vars

\* C17 witness: the human's combat went from 3 to 2; stealth, with the
\* human's bonus, and the connections are as the creation left them.
C17_Witness ==
    /\ req.cmd = "gm_skill" /\ req.amount = -1
    /\ resp.text = "is now" /\ resp.value = 2
    /\ skills[<<Guild, Player, "combat">>] = 2
    /\ skills[<<Guild, Player, "stealth">>] = 3
    /\ players[<<Guild, Player>>].lineage = "human"
    /\ players[<<Guild, Player>>].connections = 3

-----------------------------------------------------------------------------
(* Properties of the abilities *)

\* The abilities that ability_usage holds for user <<gid, uid>>.
AbilitiesOf(gid, uid) ==
    {k[3] : k \in {x \in DOMAIN ability_usage : x[1] = gid /\ x[2] = uid}}

Used(t, k) == k \in DOMAIN t /\ t[k].used

\* C13: after a successful creation of any actor, PC or NPC, with lineage
\* whitelighter the actor's ability usage holds exactly two entries, orbing
\* with scope scene and healing with scope rest, both not used, also when an
\* ability had been used before a re-creation.  ability_usage has no column
\* that names an NPC: the rows read for an NPC are those of the user that
\* made it, the only ones /npc_create could have written on its behalf.
C13_WhitelighterAbilityEntries ==
    (Created(req, resp) /\ req.lineage = "whitelighter") =>
        /\ AbilitiesOf(req.gid, req.uid) = {"orbing", "healing"}
        /\ ability_usage[<<req.gid, req.uid, "orbing">>]
              = [scope |-> "scene", used |-> FALSE]
        /\ ability_usage[<<req.gid, req.uid, "healing">>]
              = [scope |-> "rest", used |-> FALSE]

\* C13 divergence: /npc_create made the whitelighter Bob and no entry of
\* ability_usage came with him.
C13_Witness ==
    /\ Created(req, resp) /\ req.cmd = "npc_create" /\ req.lineage = "whitelighter"
    /\ ActorOf(req).lineage = "whitelighter" /\ ActorOf(req).max_rv = 7
    /\ AbilitiesOf(req.gid, req.uid) = {}
    /\ ability_usage = EmptyTable

IsActivation(r) == r.cmd \in {"orbing", "healing"}

\* The scope of the ability that an activation names.
ScopeOf(ability) == IF ability = "orbing" THEN "scene" ELSE "rest"

NotGranted == {"Only Whitelighters can Orb.", "Only Whitelighters can Heal."}

AlreadyConsumed ==
    {"Already Orbed this scene. Use /rest scope:scene.",
     "Healing already used this rest. Use /rest scope:rest."}

Activated == {"Orbing activated", "Healing applied"}

\* The lineage of user <<gid, uid>> grants the whitelighter abilities.
Granted(gid, uid) ==
    <<gid, uid>> \in DOMAIN players /\ players[<<gid, uid>>].lineage = "whitelighter"

\* C18: an activation (orbing, healing) is rejected as NotGranted when the
\* actor's lineage does not grant the ability, as AlreadyConsumed when the
\* ability's entry is used, both without a change of state, and otherwise
\* succeeds and leaves the entry used with the scope it had.
C18_ActivationOutcome ==
    [][(IsActivation(req') /\ req'.gid # NoGuild) =>
          LET k == <<req'.gid, req'.uid, req'.cmd>>
          IN /\ ~Granted(req'.gid, req'.uid)
                   => resp'.text \in NotGranted /\ UNCHANGED tables
             /\ (Granted(req'.gid, req'.uid) /\ Used(ability_usage, k))
                   => resp'.text \in AlreadyConsumed /\ UNCHANGED tables
             /\ (Granted(req'.gid, req'.uid) /\ ~Used(ability_usage, k))
                   => /\ resp'.text \in Activated
                      /\ k \in DOMAIN ability_usage
                      /\ ability_usage' =
                            [ability_usage EXCEPT
                                ![k] = [scope |-> ScopeOf(req'.cmd), used |-> TRUE]]
                      /\ ability_usage[k].scope = ScopeOf(req'.cmd)]_vars

\* C18 witness: the whitelighter healed the game master; healing is used,
\* with its scope rest, and orbing is still available.
C18_Witness ==
    /\ req.cmd = "healing" /\ req.target = GM /\ resp.text = "Healing applied"
    /\ ability_usage[<<Guild, Player, "healing">>] = [scope |-> "rest", used |-> TRUE]
    /\ ability_usage[<<Guild, Player, "orbing">>] = [scope |-> "scene", used |-> FALSE]

\* Request r resets ability a of the player: a /rest of a's scope, or a
\* creation of the player's sheet.
Resets(r, a) ==
    /\ r.gid = Guild /\ r.uid = Player
    /\ \/ r.cmd = "rest" /\ r.scope = ScopeOf(a)
       \/ r.cmd = "create"

\* Request r is the player's activation of ability a.
Activates(r, a) == r.cmd = a /\ r.gid = Guild /\ r.uid = Player

\* C19: for a whitelighter PC, once an ability was activated every further
\* activation of it replies AlreadyConsumed, and the entry stays used, until
\* a /rest of that ability's scope or a re-creation; the /rest makes it
\* available, and an activation of an available ability succeeds.  So a
\* reset or a re-creation lies between any two successful activations.
C19_ConsumedUntilReset ==
    [][\A a \in {"orbing", "healing"} :
          LET k == <<Guild, Player, a>>
          IN /\ (Used(ability_usage, k) /\ ~Resets(req', a))
                   => /\ Used(ability_usage', k)
                      /\ Activates(req', a) => resp'.text \in AlreadyConsumed
             /\ (Used(ability_usage, k) /\ Resets(req', a) /\ req'.cmd = "rest")
                   => k \in DOMAIN ability_usage' /\ ~ability_usage'[k].used
             /\ (k \in DOMAIN ability_usage /\ ~Used(ability_usage, k)
                    /\ Activates(req', a))
                   => resp'.text \in Activated /\ Used(ability_usage', k)]_vars

\* C19 witness: a second /orbing was refused while healing, of the other
\* scope, is available.
C19_Witness ==
    /\ req.cmd = "orbing" /\ req.uid = Player
    /\ resp.text = "Already Orbed this scene. Use /rest scope:scene."
    /\ Used(ability_usage, <<Guild, Player, "orbing">>)
    /\ ~Used(ability_usage, <<Guild, Player, "healing">>)
    /\ players[<<Guild, Player>>].hp = 9

\* C21: a /rest sets used to FALSE on every ability entry of its user whose
\* scope is the given scope and changes nothing else: entries of the other
\* scope keep their used flag, the entries of other users are untouched, no
\* entry is added or removed, and no other table changes (the user's sheet
\* only by a long rest).
C21_ResetScopeFrame ==
    [][(req'.cmd = "rest" /\ req'.gid # NoGuild) =>
          /\ DOMAIN ability_usage' = DOMAIN ability_usage
          /\ \A k \in DOMAIN ability_usage :
                ability_usage'[k] =
                    IF k[1] = req'.gid /\ k[2] = req'.uid
                          /\ ability_usage[k].scope = req'.scope
                    THEN [scope |-> ability_usage[k].scope, used |-> FALSE]
                    ELSE ability_usage[k]
          /\ DOMAIN players' = DOMAIN players
          /\ \A k \in DOMAIN players :
                k # <<req'.gid, req'.uid>> => players'[k] = players[k]
          /\ ~(req'.scope = "rest" /\ req'.long_rest) => players' = players
          /\ UNCHANGED <<skills, bonuses, bonus_seq, inventory, weaknesses,
                         weakness_seq, npc_chars, npc_seq, npc_skills,
                         npc_bonuses>>]_vars

\* C21 witness: after the whitelighter's /rest scope:scene orbing is
\* available and the consumed healing is still consumed.
C21_Witness ==
    /\ req.cmd = "rest" /\ req.uid = Player /\ req.scope = "scene"
    /\ resp.text = "Scene counters reset."
    /\ AbilitiesOf(Guild, Player) = {"orbing", "healing"}
    /\ ability_usage[<<Guild, Player, "orbing">>] = [scope |-> "scene", used |-> FALSE]
    /\ ability_usage[<<Guild, Player, "healing">>] = [scope |-> "rest", used |-> TRUE]
    /\ <<Guild, GM>> \in DOMAIN players

\* C22: a /rest scope:rest with long_rest sets the user's rv to max_rv in
\* the step that resets the rest-scoped abilities and leaves hp, max_hp,
\* max_rv, favors and every other field as they were; without long_rest the
\* sheets are unchanged.
C22_LongRestRestoresResolve ==
    [][(req'.cmd = "rest" /\ req'.gid # NoGuild /\ req'.scope = "rest") =>
          LET me == <<req'.gid, req'.uid>>
          IN IF req'.long_rest
             THEN /\ me \in DOMAIN players =>
                        players' = [players EXCEPT
                                       ![me] = [players[me] EXCEPT
                                                   !.rv = players[me].max_rv]]
                  /\ me \notin DOMAIN players => players' = players
                  /\ \A k \in DOMAIN ability_usage' :
                        (k[1] = me[1] /\ k[2] = me[2]
                            /\ ability_usage'[k].scope = "rest")
                           => ~ability_usage'[k].used
             ELSE players' = players]_vars

\* C22 witness: a long rest of the whitelighter, who had taken 4 damage:
\* rv is 7 of 7, hp still 6 of 10, healing available.
C22_Witness ==
    /\ req.cmd = "rest" /\ req.uid = Player /\ req.scope = "rest" /\ req.long_rest
    /\ resp.text = "Rest counters reset. RV fully restored."
    /\ <<Guild, Player>> \in DOMAIN players
    /\ players[<<Guild, Player>>].rv = 7 /\ players[<<Guild, Player>>].max_rv = 7
    /\ players[<<Guild, Player>>].hp = 6 /\ players[<<Guild, Player>>].favors = 1
    /\ ~Used(ability_usage, <<Guild, Player, "healing">>)

\* The abilities that a lineage grants.
Grants(lineage) == IF lineage = "whitelighter" THEN {"orbing", "healing"} ELSE {}

\* Every PC has the ability entries of its lineage, no more and no less.
PcKeysMatchLineage ==
    \A k \in DOMAIN players : AbilitiesOf(k[1], k[2]) = Grants(players[k].lineage)

\* C23: in every state that creations, re-creations (also with another
\* lineage), activations and scope resets reach, each actor's ability usage
\* has exactly the keys its lineage grants, orbing and healing for a
\* whitelighter and none otherwise, and no activation and no /rest adds or
\* removes a key.  The rows read for an NPC are those of the user that owns
\* it, as for C13.
C23_AbilityKeysMatchLineage ==
    /\ [](/\ PcKeysMatchLineage
          /\ \A i \in DOMAIN npc_chars :
                Grants(npc_chars[i].lineage)
                    \subseteq AbilitiesOf(npc_chars[i].guild_id, npc_chars[i].owner_id))
    /\ [][req'.cmd \in {"orbing", "healing", "rest"}
             => DOMAIN ability_usage' = DOMAIN ability_usage]_vars

\* C23 divergence: the whitelighter PC has its two entries; the whitelighter
\* NPC Bob, made after it, has none.
C23_Witness ==
    /\ req.cmd = "npc_create" /\ resp.text = "NPC saved"
    /\ \E i \in DOMAIN npc_chars :
          /\ npc_chars[i].lineage = "whitelighter"
          /\ AbilitiesOf(npc_chars[i].guild_id, npc_chars[i].owner_id) = {}
    /\ <<Guild, Player>> \in DOMAIN players
    /\ players[<<Guild, Player>>].lineage = "whitelighter"
    /\ AbilitiesOf(Guild, Player) = {"orbing", "healing"}

\* What +3 hp, or +2 rv, makes of a row.
Healed(row, resource) ==
    IF resource = "hp"
    THEN [row EXCEPT !.hp = IF row.hp + 3 > row.max_hp THEN row.max_hp ELSE row.hp + 3]
    ELSE [row EXCEPT !.rv = IF row.rv + 2 > row.max_rv THEN row.max_rv ELSE row.rv + 2]

\* C20: a /healing applies its effect to the target and marks healing as used
\* in one atomic step, also when the handler fails between its writes: no
\* run changes a sheet without consuming the healer's healing, and none
\* consumes it without the target having the +3 hp or +2 rv.
C20_HealingIsAtomic ==
    [][req'.cmd = "healing" =>
          LET k == <<req'.gid, req'.uid, "healing">>
              t == <<req'.gid, req'.target>>
              consumed == ~Used(ability_usage, k) /\ Used(ability_usage', k)
          IN /\ players' # players => consumed
             /\ consumed =>
                   /\ t \in DOMAIN players'
                   /\ players'[t] = Healed(IF t \in DOMAIN players THEN players[t]
                                           ELSE PlayerDefaults("human"),
                                           req'.resource)]_vars

\* C20 divergence: a /healing that failed at its last statement left the
\* whitelighter with the +3 hp (10 - 4 + 3) and with healing available.
C20_Witness ==
    /\ req.cmd = "healing" /\ req.target = Player /\ req.resource = "hp"
    /\ resp.text = "The application did not respond"
    /\ players[<<Guild, Player>>].hp = 9
    /\ ability_usage[<<Guild, Player, "healing">>] = [scope |-> "rest", used |-> FALSE]

-----------------------------------------------------------------------------
(* Properties of the favors and of rejected requests *)

\* Request r spends a favor: /favor spend:True, in a server, without reset.
IsSpend(r) == r.cmd = "favor" /\ r.gid # NoGuild /\ r.spend /\ ~r.reset

\* Request r resets the favors of its server, and a game master sent it.
IsReset(r) == r.cmd = "favor" /\ r.gid # NoGuild /\ r.reset /\ r.perm = TRUE

NoFavorsRemaining == "You have no Favors left."

\* C24: a spend of a favor by a user with favors <= 0 (or without a sheet)
\* is refused with NoFavorsRemaining and changes nothing; otherwise it takes
\* exactly 1 from the user's favors and changes nothing else; and in every
\* state that spends and resets reach no sheet has negative favors.
C24_SpendFavor ==
    /\ [](\A k \in DOMAIN players : players[k].favors >= 0)
    /\ [][IsSpend(req') =>
             LET me == <<req'.gid, req'.uid>>
                 fav == IF me \in DOMAIN players THEN players[me].favors ELSE 0
             IN IF fav <= 0
                THEN resp'.text = NoFavorsRemaining /\ UNCHANGED tables
                ELSE /\ resp'.text = "Spent **1 Favor**."
                     /\ players' = [players EXCEPT
                                       ![me] = [players[me] EXCEPT !.favors = fav - 1]]
                     /\ UNCHANGED <<skills, bonuses, bonus_seq, inventory, weaknesses,
                                    weakness_seq, ability_usage, npc_chars, npc_seq,
                                    npc_skills, npc_bonuses>>]_vars

\* C24 witness: the player's second spend was refused at 0 favors, while the
\* sheet of the same user in the other server still has its favor.
C24_Witness ==
    /\ IsSpend(req) /\ req.gid = Guild /\ req.uid = Player
    /\ resp.text = NoFavorsRemaining
    /\ <<Guild, Player>> \in DOMAIN players /\ players[<<Guild, Player>>].favors = 0
    /\ <<OtherGuild, Player>> \in DOMAIN players
    /\ players[<<OtherGuild, Player>>].favors = 1

\* C25: a reset of the favors of one server sets the favors of every actor
\* record of that server, PC (players) and NPC (npc_chars), to 1 whatever
\* they were, and leaves the actors of every other server, every other field
\* of every actor and every other table unchanged.
C25_ResetFavorsFrame ==
    [][IsReset(req') =>
          /\ players' = [k \in DOMAIN players |->
                            IF k[1] = req'.gid
                            THEN [players[k] EXCEPT !.favors = 1] ELSE players[k]]
          /\ npc_chars' = [i \in DOMAIN npc_chars |->
                              IF npc_chars[i].guild_id = req'.gid
                              THEN [npc_chars[i] EXCEPT !.favors = 1]
                              ELSE npc_chars[i]]
          /\ UNCHANGED <<skills, bonuses, bonus_seq, inventory, weaknesses,
                         weakness_seq, ability_usage, npc_seq, npc_skills,
                         npc_bonuses>>]_vars

\* C25 divergence: after a reset the player has 1 favor again, the sheet in
\* the other server still 0, and the NPC Bob of the reset server has 0.
C25_Witness ==
    /\ IsReset(req) /\ req.gid = Guild
    /\ resp.text = "Favors reset to 1 for this server."
    /\ <<Guild, Player>> \in DOMAIN players /\ players[<<Guild, Player>>].favors = 1
    /\ <<OtherGuild, Player>> \in DOMAIN players
    /\ players[<<OtherGuild, Player>>].favors = 0
    /\ \E i \in DOMAIN npc_chars :
          npc_chars[i].guild_id = Guild /\ npc_chars[i].favors = 0

\* C27: a request refused with a policy error (NotGranted, AlreadyConsumed,
\* NoFavorsRemaining) leaves every table as it was: a refused /healing
\* neither heals its target nor creates a sheet for it, a refused /orbing
\* creates no ability entry.
C27_PolicyErrorChangesNothing ==
    [][resp'.text \in NotGranted \cup AlreadyConsumed \cup {NoFavorsRemaining}
          => UNCHANGED tables]_vars

\* C27 witness: a demon's /healing of the game master was refused, and the
\* game master, who has no sheet, got none.
C27_Witness ==
    /\ req.cmd = "healing" /\ req.target = GM
    /\ resp.text = "Only Whitelighters can Heal."
    /\ <<Guild, Player>> \in DOMAIN players
    /\ players[<<Guild, Player>>].lineage = "demon"
    /\ <<Guild, GM>> \notin DOMAIN players
    /\ ability_usage = EmptyTable

-----------------------------------------------------------------------------
(* Properties of the sheets *)

\* The ids of the weaknesses of user <<gid, uid>>.
WeaknessesOf(gid, uid) ==
    {i \in DOMAIN weaknesses :
        weaknesses[i].guild_id = gid /\ weaknesses[i].user_id = uid}

TwoAlready == "You already have two weaknesses. Use /weakness_remove first."

\* C26: a /weakness_add of a user who has two weaknesses is refused and
\* leaves the two, and every table, as they were; with fewer the weakness is
\* stored; and in every state that additions and removals reach no user has
\* more than 2 weaknesses.
C26_AtMostTwoWeaknesses ==
    /\ [](\A i \in DOMAIN weaknesses :
             Cardinality(WeaknessesOf(weaknesses[i].guild_id,
                                      weaknesses[i].user_id)) <= 2)
    /\ [][(req'.cmd = "weakness_add" /\ req'.gid # NoGuild) =>
             IF Cardinality(WeaknessesOf(req'.gid, req'.uid)) >= 2
             THEN resp'.text = TwoAlready /\ UNCHANGED tables
             ELSE /\ resp'.text = "Weakness saved."
                  /\ \E i \in DOMAIN weaknesses' \ DOMAIN weaknesses :
                        weaknesses' =
                            Put(weaknesses, i,
                                [guild_id |-> req'.gid, user_id |-> req'.uid,
                                 text |-> req'.text])]_vars

\* C26 witness: the player's third weakness was refused; the two stored
\* ones are #1 and #2.
C26_Witness ==
    /\ req.cmd = "weakness_add" /\ req.uid = Player /\ resp.text = TwoAlready
    /\ WeaknessesOf(Guild, Player) = {1, 2}
    /\ <<Guild, Player>> \in DOMAIN players

\* C28: an operation on an actor key without a record surfaces NotFound and
\* creates no record; only a creation, and a /healing for its target, may
\* add a sheet.  So no other command adds a row to players or to skills, and
\* a /gm_skill for a member without a sheet does not report a new value.
C28_UnknownActorCreatesNoRecord ==
    [][req'.cmd \notin {"create", "npc_create", "healing"} =>
          /\ DOMAIN players' = DOMAIN players
          /\ DOMAIN skills' = DOMAIN skills
          /\ (req'.cmd = "gm_skill" /\ req'.gid # NoGuild /\ req'.perm = TRUE
                 /\ <<req'.gid, req'.member>> \notin DOMAIN players)
                => resp'.text # "is now"]_vars

\* C28 divergence: a /gm_skill by 2 for a member who never made a sheet
\* succeeded, and the member has the default sheet of a human, with no
\* connections, and ten skills.
C28_Witness ==
    /\ req.cmd = "gm_skill" /\ req.amount = 2
    /\ resp.text = "is now" /\ resp.value = 2
    /\ <<Guild, Player>> \in DOMAIN players
    /\ players[<<Guild, Player>>] = PlayerDefaults("human")
    /\ skills[<<Guild, Player, "combat">>] = 2
    /\ \A s \in SkillSet \ {"combat"} : skills[<<Guild, Player, s>>] = 0

\* The id of the NPC (gid, owner, name) in table t of NPCs, 0 without one.
NpcId(t, gid, owner, name) ==
    LET hit == {i \in DOMAIN t : /\ t[i].guild_id = gid /\ t[i].owner_id = owner
                                 /\ t[i].name = name}
    IN IF hit = {} THEN 0 ELSE CHOOSE i \in hit : TRUE

\* The points that creation request r gives skill s.
NewPoints(r, s) ==
    IF r.lineage = "human" THEN WithBonus(r.slots, s, r.human_bonus_skill, 1)
    ELSE IF r.lineage = "witch" THEN WithBonus(r.slots, s, r.witch_bonus_skill, 2)
    ELSE PlainPoints(r.slots, s)

\* C29: a re-creation of an NPC under the same (server, owner, name) keeps
\* the NPC's id, adds no record, and leaves the NPC without bonus and with
\* the skill points of the new request alone; a creation of a PC sets its
\* skills to those of the new request and leaves every bonus, weakness and
\* inventory item unchanged.
C29_RecreationFrame ==
    [][Created(req', resp') =>
          IF req'.cmd = "npc_create"
          THEN LET old == NpcId(npc_chars, req'.gid, req'.uid, req'.name)
                   id == NpcId(npc_chars', req'.gid, req'.uid, req'.name)
               IN /\ old # 0 => (id = old /\ DOMAIN npc_chars' = DOMAIN npc_chars)
                  /\ \A b \in DOMAIN npc_bonuses' : npc_bonuses'[b].npc_id # id
                  /\ \A s \in SkillSet : npc_skills'[<<id, s>>] = NewPoints(req', s)
          ELSE /\ \A s \in SkillSet :
                     skills'[<<req'.gid, req'.uid, s>>] = NewPoints(req', s)
               /\ UNCHANGED <<bonuses, bonus_seq, weaknesses, weakness_seq,
                              inventory>>]_vars

\* C29 witness: the player's sheet was made over DistB while a bonus on
\* combat, two weaknesses and two ropes are stored for the player, and Bob
\* is the one NPC.
C29_Witness ==
    /\ Created(req, resp) /\ req.cmd = "create" /\ req.slots = DistB
    /\ skills[<<Guild, Player, "combat">>] = 0
    /\ \E b \in DOMAIN bonuses :
          bonuses[b].user_id = Player /\ bonuses[b].skill = "combat"
    /\ Cardinality(WeaknessesOf(Guild, Player)) = 2
    /\ <<Guild, Player, "rope">> \in DOMAIN inventory
    /\ inventory[<<Guild, Player, "rope">>] = 2
    /\ DOMAIN npc_chars = {1}

-----------------------------------------------------------------------------
(* Properties of handlers in flight *)

\* Both handlers have returned.
Returned == \A i \in DOMAIN tasks : tasks[i].pc = 0

\* The handlers in flight run commands c1 and c2, in either order of call.
Racing(c1, c2) ==
    /\ Len(tasks) = 2
    /\ \/ tasks[1].req.cmd = c1 /\ tasks[2].req.cmd = c2
       \/ tasks[1].req.cmd = c2 /\ tasks[2].req.cmd = c1

\* The tasks that returned with one of the replies in texts.
Replied(texts) ==
    {i \in DOMAIN tasks : tasks[i].pc = 0 /\ tasks[i].reply.text \in texts}

\* C31: when the same actor activates the same ability twice at once, the
\* ability being available and no reset running, exactly one activation
\* succeeds and the other is refused as AlreadyConsumed, and the effect of
\* healing (3 hp or 2 resolve) is applied to the target at most once.
C31_OneActivationWins ==
    (Len(tasks) = 2 /\ tasks[1].req = tasks[2].req /\ IsActivation(tasks[1].req))
        => /\ players[<<Guild, Player>>].hp <= Hurt.players[<<Guild, Player>>].hp + 3
           /\ players[<<Guild, Player>>].rv <= Hurt.players[<<Guild, Player>>].rv + 2
           /\ Cardinality(Replied(Activated)) <= 1
           /\ Returned => /\ Cardinality(Replied(Activated)) = 1
                          /\ Cardinality(Replied(AlreadyConsumed)) = 1

\* C31 divergence: two /healing resource:hp of one whitelighter both
\* returned "Healing applied" and the target went from 4 to 10 hp.
C31_Witness ==
    /\ Racing("healing", "healing") /\ Returned
    /\ Replied(Activated) = {1, 2}
    /\ tasks[1].req.resource = "hp"
    /\ players[<<Guild, Player>>].hp = 10
    /\ Hurt.players[<<Guild, Player>>].hp = 4

\* C32: in every state that a sequence of creations and re-creations,
\* adjusts of hp and rv, healings (of oneself, and of a member whose sheet
\* the healing makes) and rests (short and long) reaches, every PC and NPC
\* has 0 <= hp <= max_hp and 0 <= rv <= max_rv; and a healing that is applied
\* leaves its target with 3 hp more, or 2 rv more, but never above the
\* maximum.
C32_PoolsInRangeEverywhere ==
    /\ []PoolsInRange(players, npc_chars)
    /\ [][(req'.cmd = "healing" /\ resp'.text = "Healing applied") =>
            LET t == <<req'.gid, req'.target>>
            IN /\ t \in DOMAIN players'
               /\ players'[t] = Healed(IF t \in DOMAIN players THEN players[t]
                                       ELSE PlayerDefaults("human"),
                                       req'.resource)]_vars

\* C32 witness: the whitelighter, at 6/10 hp and 4/7 rv after damage, healed
\* the game master, whose sheet the healing made at 10/10: the 3 hp are cut
\* off at the maximum.
C32_Witness ==
    /\ req.cmd = "healing" /\ req.target = GM /\ req.resource = "hp"
    /\ resp.text = "Healing applied"
    /\ <<Guild, GM>> \in DOMAIN players
    /\ players[<<Guild, GM>>].hp = 10 /\ players[<<Guild, GM>>].max_hp = 10
    /\ players[<<Guild, Player>>].hp = 6 /\ players[<<Guild, Player>>].rv = 4

\* C33: a PC has 0 <= rv <= max_rv at all times, also while a re-creation of
\* the PC (which may lower max_rv from 7 to 5) and an adjust of its rv or a
\* long rest are in flight together.
C33_ResolveInRangeInFlight ==
    (Racing("create", "rv") \/ Racing("create", "rest"))
        => \A k \in DOMAIN players :
              0 <= players[k].rv /\ players[k].rv <= players[k].max_rv

\* C33 divergence: the /rv that read 5/7 before the baseline UPDATE of the
\* re-creation wrote its 7 after it: both returned, and the demon is at 7/5.
C33_Witness ==
    /\ Racing("create", "rv") /\ Returned
    /\ tasks[2].req.amount = -2
    /\ tasks[2].reply = [text |-> "RV now", value |-> 7, max |-> 7]
    /\ players[<<Guild, Player>>].lineage = "demon"
    /\ players[<<Guild, Player>>].rv = 7
    /\ players[<<Guild, Player>>].max_rv = 5

\* C34: no sheet has negative favors at any time, also while two spends of
\* one actor are in flight together; of two such spends that start with
\* favors = 1 at most one succeeds.
C34_FavorsNeverNegativeInFlight ==
    Racing("favor", "favor")
        => /\ \A k \in DOMAIN players : players[k].favors >= 0
           /\ Cardinality(Replied({"Spent **1 Favor**."})) <= 1

\* C34 divergence: both spends read favors = 1, both took one and both
\* returned "Spent": the sheet has -1 favors.
C34_Witness ==
    /\ Racing("favor", "favor") /\ Returned
    /\ Hurt.players[<<Guild, Player>>].favors = 1
    /\ Replied({"Spent **1 Favor**."}) = {1, 2}
    /\ players[<<Guild, Player>>].favors = -1

\* The value of a pool after two adjusts by a1 and then a2, one after the
\* other, from the sheet the race starts with.
OneAfterTheOther(cmd, a1, a2) ==
    IF cmd = "hp"
    THEN hp(hp(Hurt, Guild, Player, a1).db, Guild, Player, a2).db.players[<<Guild, Player>>].hp
    ELSE rv(rv(Hurt, Guild, Player, a1).db, Guild, Player, a2).db.players[<<Guild, Player>>].rv

\* C35: two adjusts of the same pool of one actor that are in flight
\* together leave the pool at the value that one of the two orders of
\* running them one after the other leaves: no adjust that replied with
\* success is lost.
C35_AdjustsSerialize ==
    \A cmd \in {"hp", "rv"} :
        (Racing(cmd, cmd) /\ Returned)
            => LET a1 == tasks[1].req.amount
                   a2 == tasks[2].req.amount
                   now == IF cmd = "hp" THEN players[<<Guild, Player>>].hp
                          ELSE players[<<Guild, Player>>].rv
               IN now \in {OneAfterTheOther(cmd, a1, a2), OneAfterTheOther(cmd, a2, a1)}

\* C35 divergence: from 4 hp, 3 damage and 2 healing in flight together:
\* both read 4, the damage wrote 1 and replied, the healing wrote 6 over
\* it.  Either order of the two leaves 3.
C35_Witness ==
    /\ Racing("hp", "hp") /\ Returned
    /\ tasks[1].reply = [text |-> "HP now", value |-> 1, max |-> 10]
    /\ tasks[2].reply = [text |-> "HP now", value |-> 6, max |-> 10]
    /\ players[<<Guild, Player>>].hp = 6
    /\ OneAfterTheOther("hp", 3, -2) = 3 /\ OneAfterTheOther("hp", -2, 3) = 3

\* C36: after a re-creation of a whitelighter PC with another lineage and
\* an activation (orbing, healing) by the same PC, in flight together, have
\* both returned, the keys of the PC's ability usage are exactly those that
\* its final lineage grants.
C36_KeysMatchFinalLineage ==
    ((Racing("create", "orbing") \/ Racing("create", "healing")) /\ Returned)
        => AbilitiesOf(Guild, Player) = Grants(players[<<Guild, Player>>].lineage)

\* C36 divergence: the /orbing passed its two reads while the sheet was a
\* whitelighter's, the re-creation deleted the entries, and the INSERT of
\* the /orbing put one back: a demon with an orbing entry, which is used.
C36_Witness ==
    /\ Racing("create", "orbing") /\ Returned
    /\ tasks[1].reply = Msg("created") /\ tasks[2].reply = Msg("Orbing activated")
    /\ players[<<Guild, Player>>].lineage = "demon"
    /\ AbilitiesOf(Guild, Player) = {"orbing"}
    /\ ability_usage[<<Guild, Player, "orbing">>] = [scope |-> "scene", used |-> TRUE]

-----------------------------------------------------------------------------
(* Properties of the bonus ledger *)

\* Tables t and u hold the same rows under the keys in K.
SameRows(t, u, K) == \A k \in K : k \in DOMAIN t /\ k \in DOMAIN u /\ t[k] = u[k]

\* C37: a bonus that is added becomes a new entry beside the entries there
\* are, also beside those of the same actor and skill, none of which is
\* replaced or changed; a removal by id removes exactly the entry with that
\* id when it belongs to the requester, and nothing when it belongs to
\* another actor or does not exist; every other entry stays as it is.
C37_BonusLedgerFrame ==
    [][/\ (req'.cmd = "bonus_add" /\ req'.gid # NoGuild) =>
             /\ SameRows(bonuses, bonuses', DOMAIN bonuses)
             /\ \E id \in DOMAIN bonuses' \ DOMAIN bonuses :
                   /\ DOMAIN bonuses' = DOMAIN bonuses \cup {id}
                   /\ bonuses'[id] = [guild_id |-> req'.gid, user_id |-> req'.uid,
                                      skill |-> req'.skill, bonus |-> req'.amount]
       /\ (req'.cmd = "bonus_remove" /\ req'.gid # NoGuild) =>
             LET id == req'.bonus_id
                 own == /\ id \in DOMAIN bonuses
                        /\ bonuses[id].guild_id = req'.gid
                        /\ bonuses[id].user_id = req'.uid
             IN /\ DOMAIN bonuses' = IF own THEN DOMAIN bonuses \ {id} ELSE DOMAIN bonuses
                /\ SameRows(bonuses, bonuses', DOMAIN bonuses')
       /\ req'.cmd \in {"bonus_add", "bonus_remove"} =>
             npc_bonuses' = npc_bonuses]_vars

\* C37 witness: the player holds two bonuses on combat, #1 and #2, and the
\* game master's removal of #1 has just left both where they were.
C37_Witness ==
    /\ req.cmd = "bonus_remove" /\ req.uid = GM /\ req.bonus_id = 1
    /\ DOMAIN bonuses = {1, 2}
    /\ bonuses[1] = [guild_id |-> Guild, user_id |-> Player, skill |-> "combat", bonus |-> 2]
    /\ bonuses[2] = [guild_id |-> Guild, user_id |-> Player, skill |-> "combat", bonus |-> -3]

-----------------------------------------------------------------------------
(* Properties of the dice of a check *)

\* The last command was a check of one d20 that was accepted and rolled.
SingleCheck == IsCheck(req) /\ resp.text = "rolls" /\ resp.single

\* C38: every accepted check of one d20 draws exactly two values from the
\* random source, d1 and then d2, both in 1..20, with advantage, with
\* disadvantage and with neither.
C38_TwoDrawsPerCheck ==
    SingleCheck => Len(rolled) = 2 /\ \A i \in 1..2 : rolled[i] \in 1..20

\* C38 divergence: !r 1d20 combat vs 15, without a modifier, drew one value.
C38_Witness ==
    /\ req.cmd = "r" /\ req.text = "1d20 combat vs 15"
    /\ resp.text = "rolls" /\ resp.single
    /\ rolled = <<17>> /\ resp.dice = 17

\* The situational bonus that request r asks for: !r has none.
SituationalOf(r) == IF r.cmd = "roll" THEN r.bonus ELSE 0

\* C39: the total of a check of one d20 is the chosen die plus the actor's
\* skill total (base points plus bonuses) plus the situational bonus, and
\* the tag of the die is CRIT exactly when the chosen die is 20, BOTCH
\* exactly when it is 1, and absent otherwise, whatever the total, the
\* difficulty and the die that was not chosen are.
C39_TotalAndNaturalTag ==
    SingleCheck =>
        /\ resp.dice = ChosenDie(req, rolled)
        /\ resp.total = resp.dice + (resp.base + resp.extra) + SituationalOf(req)
        /\ resp.nat = " (CRIT!)" <=> resp.dice = 20
        /\ resp.nat = " (BOTCH)" <=> resp.dice = 1
        /\ resp.nat = "" <=> resp.dice \notin {1, 20}

\* C39 witness: the cursed demon rolled combat with disadvantage and a
\* situational -3 against a difficulty of 1: of 20 and 1 the 1 counts, a
\* botch beside an unchosen 20, and the total is 1 + (3 - 4) - 3.
C39_Witness ==
    /\ req.cmd = "roll" /\ req.disadvantage /\ req.bonus = -3 /\ req.dc = <<1>>
    /\ rolled = <<20, 1>>
    /\ resp.text = "rolls" /\ resp.nat = " (BOTCH)"
    /\ resp.base = 3 /\ resp.extra = -4 /\ resp.total = -3

\* Request r is a /roll under a name that gets as far as the dice.
IsNamedRoll(r) ==
    /\ r.cmd = "roll" /\ r.as_name # None /\ r.gid # NoGuild
    /\ ~(r.advantage /\ r.disadvantage)

\* C40: a roll under a name is made for the NPC of that name that the
\* requester owns in the server, when there is one: its points and its
\* bonuses are read and no sheet is made or changed.  When there is none,
\* the name being unknown or the NPC another user's, the roll does not fail
\* but is made for the requester's own PC, with the PC's points and
\* bonuses: the skills of another user's NPC are never read.
C40_NamedRollResolvesToOwnActor ==
    [][IsNamedRoll(req') =>
          LET r == req'
              id == NpcId(npc_chars, r.gid, r.uid, r.as_name)
              pc == <<r.gid, r.uid, r.skill>>
          IN /\ resp'.text = "rolls"
             /\ id # 0 =>
                   /\ resp'.base = IF <<id, r.skill>> \in DOMAIN npc_skills
                                   THEN npc_skills[<<id, r.skill>>] ELSE 0
                   /\ resp'.extra = SumOf([e \in DOMAIN npc_bonuses |-> npc_bonuses[e].bonus],
                                          EntriesOfNpc(id, r.skill))
                   /\ UNCHANGED tables
             /\ id = 0 =>
                   /\ <<r.gid, r.uid>> \in DOMAIN players'
                   /\ resp'.base = skills'[pc]
                   /\ resp'.extra = SumOf([e \in DOMAIN bonuses |-> bonuses[e].bonus],
                                          EntriesOfPc(r.gid, r.uid, r.skill))
                   /\ UNCHANGED <<npc_chars, npc_skills, npc_bonuses, bonuses>>]_vars

\* C40 witness: the player rolled stealth as Bob, the game master's NPC with
\* 5 points in stealth, and the roll was made with the 2 points of the
\* player's own sheet.
C40_Witness ==
    /\ req.cmd = "roll" /\ req.uid = Player /\ req.as_name = "Bob"
    /\ req.skill = "stealth" /\ resp.text = "rolls"
    /\ DOMAIN npc_chars = {1}
    /\ npc_chars[1].owner_id = GM /\ npc_chars[1].name = "Bob"
    /\ npc_skills[<<1, "stealth">>] = 5
    /\ skills[<<Guild, Player, "stealth">>] = 2 /\ resp.base = 2

=============================================================================
